---- MODULE Spec2Model ----
(***************************************************************************)
(* A model of the YouTube comment dashboard pages (app.py and pages/01,    *)
(* 03, 04): the URL parser extract_video_id, the paginated comment         *)
(* fetchers, raise_api_error, the tokenizers and the word counter, the     *)
(* font download, and the page scripts that drive them.                    *)
(*                                                                         *)
(* Python strings are TLA+ strings where only ASCII matters (URLs, error   *)
(* messages) and sequences of code points where Hangul does (comment text, *)
(* stopwords); an Optional value is a sequence of length 0 (None) or 1.    *)
(***************************************************************************)
EXTENDS Integers, Sequences, FiniteSets, TLC

VARIABLES
    page,        \* which page script runs: "app", "p01", "p03", "p04"; "none" when a function is called directly
    secrets,     \* st.secrets: a function from secret names to values
    src,         \* the comment source (the REST service) the requests are answered by
    url_input,   \* the text of the URL field
    widgets,     \* the other input widgets: quick, slider_val, max_comments
    fetch_btn,   \* whether the trigger was pressed for the current script run
    pc,          \* position of the running script or function
    video_id,    \* result of extract_video_id
    fn,          \* the fetch function that runs
    cap,         \* its max_total / limit / max_count (None: unbounded)
    items,       \* its accumulated list
    page_token,  \* its page_token local
    reqs,        \* the HTTP requests issued in the current run, in order
    raised,      \* the exception a function call ended with, if any
    result,      \* the value a function returned to its caller, if it returned
    out,         \* what the current script run has put on the page
    texts,       \* the comment texts a tokenizer is called with
    user_en_stop, \* page 04: the text area of English stopwords
    user_ko_stop, \* page 04: the text area of Korean stopwords
    topk,        \* count_top_words: its topk
    font_env     \* the font file in the temporary directory and the two downloads

vars == <<page, secrets, src, url_input, widgets, fetch_btn, pc, video_id,
          fn, cap, items, page_token, reqs, raised, result, out,
          texts, user_en_stop, user_ko_stop, topk, font_env>>

\* the arguments of the text functions and the surroundings of the font download
textvars == <<texts, user_en_stop, user_ko_stop, topk, font_env>>

None == <<>>
Some(x) == <<x>>

(***************************************************************************)
(* Strings                                                                 *)
(***************************************************************************)
\* Python: s[a-1:b], 1-based and inclusive, clipped to the string
Slice(s, a, b) ==
    IF a > b \/ a > Len(s) \/ b < 1 THEN ""
    ELSE SubSeq(s, IF a < 1 THEN 1 ELSE a, IF b > Len(s) THEN Len(s) ELSE b)

Ch(s, i) == Slice(s, i, i)

\* Python: sub in s
Contains(s, sub) ==
    \E i \in 1..(Len(s) - Len(sub) + 1) : Slice(s, i, i + Len(sub) - 1) = sub

\* Python: s.find(sub, start), 1-based, 0 when absent
Find(s, sub, start) ==
    LET hits == {i \in start..(Len(s) - Len(sub) + 1) : Slice(s, i, i + Len(sub) - 1) = sub}
    IN  IF hits = {} THEN 0 ELSE CHOOSE i \in hits : \A j \in hits : i <= j

UpperAlphabet == "ABCDEFGHIJKLMNOPQRSTUVWXYZ"
LowerAlphabet == "abcdefghijklmnopqrstuvwxyz"
DigitAlphabet == "0123456789"

CharsOf(s) == {Ch(s, i) : i \in 1..Len(s)}

\* the character class [A-Za-z0-9_-]
IdChars == CharsOf(UpperAlphabet) \cup CharsOf(LowerAlphabet) \cup CharsOf(DigitAlphabet) \cup {"_", "-"}

Whitespace == {" ", "\t", "\n", "\r"}

UpperChars == CharsOf(UpperAlphabet)

LowerOf == [c \in UpperChars |->
              Ch(LowerAlphabet, CHOOSE i \in 1..Len(UpperAlphabet) : Ch(UpperAlphabet, i) = c)]

LowerChar(c) == IF c \in UpperChars THEN LowerOf[c] ELSE c

RECURSIVE Lower(_)
\* Python: s.lower()
Lower(s) == IF s = "" THEN "" ELSE LowerChar(Ch(s, 1)) \o Lower(Slice(s, 2, Len(s)))

\* Python: s.strip()
Strip(s) ==
    LET keep == {i \in 1..Len(s) : Ch(s, i) \notin Whitespace}
    IN  IF keep = {} THEN ""
        ELSE Slice(s, CHOOSE i \in keep : \A j \in keep : i <= j,
                       CHOOSE i \in keep : \A j \in keep : i >= j)

RECURSIVE Split(_, _)
\* Python: s.split(sep) for a one-character sep
Split(s, sep) ==
    LET k == Find(s, sep, 1)
    IN  IF k = 0 THEN <<s>>
        ELSE <<Slice(s, 1, k - 1)>> \o Split(Slice(s, k + 1, Len(s)), sep)

RECURSIVE ReplaceChar(_, _, _)
\* Python: s.replace(a, b) for one-character a
ReplaceChar(s, a, b) ==
    IF s = "" THEN ""
    ELSE (IF Ch(s, 1) = a THEN b ELSE Ch(s, 1)) \o ReplaceChar(Slice(s, 2, Len(s)), a, b)

RECURSIVE IdRunLen(_, _)
\* length of the longest run of [A-Za-z0-9_-] that starts at index i of s
IdRunLen(s, i) ==
    IF i <= Len(s) /\ Ch(s, i) \in IdChars THEN 1 + IdRunLen(s, i + 1) ELSE 0

(***************************************************************************)
(* extract_video_id                                                        *)
(***************************************************************************)
\* the identifier pattern of the path regexes: {6,}
MinPathIdLen == 6

\* re.match(r"^https?://", url, flags=re.I)
HasScheme(url) ==
    \/ Lower(Slice(url, 1, 7)) = "http://"
    \/ Lower(Slice(url, 1, 8)) = "https://"

\* urlparse(url) of a url that starts with http:// or https://: the parts the
\* parser reads. raises: urlsplit's ValueError on an unbalanced [ or ] in the netloc.
\* The inputs hold no ';' (path parameters) and no '%' (escapes).
UrlParse(url) ==
    LET start == Find(url, "://", 1) + 3
        ends  == {i \in start..Len(url) : Ch(url, i) \in {"/", "?", "#"}}
        stop  == IF ends = {} THEN Len(url) + 1 ELSE CHOOSE i \in ends : \A j \in ends : i <= j
        rest  == Slice(url, stop, Len(url))
        hash  == Find(rest, "#", 1)
        nofrag == IF hash = 0 THEN rest ELSE Slice(rest, 1, hash - 1)
        qm    == Find(nofrag, "?", 1)
        netloc == Slice(url, start, stop - 1)
    IN  [raises |-> Contains(netloc, "[") # Contains(netloc, "]"),
         netloc |-> netloc,
         path   |-> IF qm = 0 THEN nofrag ELSE Slice(nofrag, 1, qm - 1),
         query  |-> IF qm = 0 THEN "" ELSE Slice(nofrag, qm + 1, Len(nofrag))]

\* parse_qs(query)[name], or <<>> when name is no key: the values of the fields
\* name=value whose value is not blank, '+' decoded to a space
ParseQs(query, name) ==
    LET fields == Split(query, "&")
        Key(f) == LET e == Find(f, "=", 1) IN
                  IF e = 0 THEN ReplaceChar(f, "+", " ") ELSE ReplaceChar(Slice(f, 1, e - 1), "+", " ")
        Val(f) == LET e == Find(f, "=", 1) IN
                  IF e = 0 THEN "" ELSE Slice(f, e + 1, Len(f))
        kept == SelectSeq(fields, LAMBDA f : Val(f) # "" /\ Key(f) = name)
    IN  [i \in 1..Len(kept) |-> ReplaceChar(Val(kept[i]), "+", " ")]

\* re.search(prefix + r"([A-Za-z0-9_-]{6,})", path).group(1), or None
SearchId(prefix, path) ==
    LET hits == {i \in 1..Len(path) :
                    /\ Slice(path, i, i + Len(prefix) - 1) = prefix
                    /\ IdRunLen(path, i + Len(prefix)) >= MinPathIdLen}
    IN  IF hits = {} THEN None
        ELSE LET i == CHOOSE h \in hits : \A j \in hits : h <= j
             IN  Some(Slice(path, i + Len(prefix), i + Len(prefix) + IdRunLen(path, i + Len(prefix)) - 1))

\* a pattern of exactly 11 characters, {11}, for {6,}
MatchLeadingIdEleven(path) ==
    IF Ch(path, 1) = "/" /\ IdRunLen(path, 2) >= 11
    THEN Some(Slice(path, 2, 12))
    ELSE None

\* re.match(r"^/([A-Za-z0-9_-]{6,})", path).group(1), or None
MatchLeadingId(path) ==
    IF Ch(path, 1) = "/" /\ IdRunLen(path, 2) >= MinPathIdLen
    THEN Some(Slice(path, 2, 1 + IdRunLen(path, 2)))
    ELSE None

\* the three path forms tried before the v parameter
YoutubeHostBranchPathFirst(host, path, qv) ==
    IF Contains(host, "youtube.com")
    THEN IF SearchId("/embed/", path) # None THEN SearchId("/embed/", path)
         ELSE IF SearchId("/shorts/", path) # None THEN SearchId("/shorts/", path)
         ELSE IF SearchId("/live/", path) # None THEN SearchId("/live/", path)
         ELSE IF qv # <<>> THEN Some(qv[1])
         ELSE None
    ELSE None

\* if "youtube.com" in host: (the v parameter and the three path forms)
YoutubeHostBranch(host, path, qv) ==
    IF Contains(host, "youtube.com")
    THEN IF qv # <<>> THEN Some(qv[1])
         ELSE IF SearchId("/embed/", path) # None THEN SearchId("/embed/", path)
         ELSE IF SearchId("/shorts/", path) # None THEN SearchId("/shorts/", path)
         ELSE SearchId("/live/", path)
    ELSE None

\* if "youtu.be" in host: (the leading path segment)
ShortHostBranch(host, path) ==
    IF Contains(host, "youtu.be") THEN MatchLeadingId(path) ELSE None

\* if "vi" in qs and qs["vi"]: return qs["vi"][0]
ViFallback(qvi) == IF qvi # <<>> THEN Some(qvi[1]) ELSE None

extract_video_id(url0) ==
    IF url0 = "" THEN None
    ELSE LET url1 == Strip(url0)
             url  == IF HasScheme(url1) THEN url1 ELSE "https://" \o url1
             parsed == UrlParse(url)
             host == Lower(parsed.netloc)
             path == parsed.path
             qv   == ParseQs(parsed.query, "v")
             qvi  == ParseQs(parsed.query, "vi")
             a    == YoutubeHostBranch(host, path, qv)
             b    == ShortHostBranch(host, path)
         IN  IF parsed.raises THEN None
             ELSE IF a # None THEN a
             ELSE IF b # None THEN b
             ELSE ViFallback(qvi)

(***************************************************************************)
(* URL inputs                                                              *)
(***************************************************************************)
DEFAULT_URL == "https://www.youtube.com/watch?v=WXuK6gekU1Y"

\* identifiers of 11 or more characters of [A-Za-z0-9_-]
ValidIds == {"WXuK6gekU1Y", "a_B-9zZ0xYq", "dQw4w9WgXcQ0"}
\* strings that are no identifier: too short, or with other characters
BadIds == {"abc", "abc12", "abc!defghijk", "a+b", "abcdefgh!jk"}
\* well-formed but shorter than a real identifier
ShortIds == {"abcdef", "abcdefg"}

Schemes == {"", "https://", "http://", "HTTPS://"}
YoutubeHosts == {"www.youtube.com", "youtube.com", "m.youtube.com", "WWW.YouTube.com"}
ShortHosts == {"youtu.be"}
OtherHosts == {"example.com", "vimeo.com", "notyoutube.com", "[bad"}

\* the accepted URL shapes, by name, for host h and identifier id
Shape(kind, id) ==
    CASE kind = "watch"  -> "/watch?v=" \o id
      [] kind = "watch2" -> "/watch?t=10s&v=" \o id \o "&feature=share"
      [] kind = "embed"  -> "/embed/" \o id
      [] kind = "shorts" -> "/shorts/" \o id \o "?feature=share"
      [] kind = "live"   -> "/live/" \o id
      [] kind = "vi"     -> "/watch?vi=" \o id
      [] kind = "short"  -> "/" \o id
      [] kind = "short2" -> "/" \o id \o "?t=42"

YoutubeShapes == {"watch", "watch2", "embed", "shorts", "live", "vi"}
ShortShapes == {"short", "short2"}

AcceptedUrl(sch, h, kind, id) == sch \o h \o Shape(kind, id)

AcceptedUrls ==
    {AcceptedUrl(sch, h, k, id) : sch \in Schemes, h \in YoutubeHosts, k \in YoutubeShapes, id \in ValidIds}
    \cup {AcceptedUrl(sch, h, k, id) : sch \in Schemes, h \in ShortHosts, k \in ShortShapes, id \in ValidIds}


\* inputs that are malformed or unsupported: nothing, a host that is not YouTube,
\* a YouTube URL with the identifier missing, too short or with other characters
MalformedUrls ==
    {"", "   ", "not a url", "https://", "http://[bad/watch?v=WXuK6gekU1Y"}
    \cup {sch \o h \o p : sch \in {"", "https://"}, h \in {"example.com", "vimeo.com"},
                          p \in {"", "/", "/watch?v=WXuK6gekU1Y", "/embed/WXuK6gekU1Y", "/WXuK6gekU1Y",
                                 "/watch?vi=WXuK6gekU1Y"}}
    \cup {sch \o "notyoutube.com" \o Shape(k, id) : sch \in {"", "https://"}, k \in {"watch", "embed"}, id \in ValidIds}
    \cup {sch \o h \o p : sch \in {"", "https://"}, h \in {"www.youtube.com", "youtu.be"},
                          p \in {"", "/", "/watch", "/watch?v=", "/watch?feature=share", "/embed/", "/shorts/",
                                 "/live/", "/watch?vi="}}
    \cup {sch \o "www.youtube.com" \o Shape(k, id) : sch \in {"", "https://"}, k \in YoutubeShapes, id \in BadIds}
    \cup {sch \o "youtu.be" \o Shape(k, id) : sch \in {"", "https://"}, k \in ShortShapes, id \in BadIds}

\* URLs that offer more than one identifier source
MixedUrls ==
    {h \o p : h \in {"www.youtube.com", "youtu.be", "example.com"},
              p \in {"/embed/WXuK6gekU1Y?v=a_B-9zZ0xYq",
                     "/shorts/WXuK6gekU1Y/embed/a_B-9zZ0xYq",
                     "/live/WXuK6gekU1Y/shorts/a_B-9zZ0xYq",
                     "/live/WXuK6gekU1Y?vi=a_B-9zZ0xYq",
                     "/WXuK6gekU1Y?v=a_B-9zZ0xYq",
                     "/WXuK6gekU1Y?vi=a_B-9zZ0xYq",
                     "/watch?vi=WXuK6gekU1Y&v=a_B-9zZ0xYq",
                     "/watch?v=WXuK6gekU1Y&v=a_B-9zZ0xYq",
                     "/embed/abc/embed/a_B-9zZ0xYq",
                     "/embed/WXuK6gekU1Y#?v=a_B-9zZ0xYq"}}

UrlInputs ==
    AcceptedUrls \cup MalformedUrls \cup MixedUrls
    \cup {"  " \o DEFAULT_URL \o " "}
    \cup {"www.youtube.com" \o Shape(k, id) : k \in YoutubeShapes, id \in ShortIds}


(***************************************************************************)
(* The comment source: the REST service, as a black box that answers a     *)
(* request by a response                                                   *)
(***************************************************************************)
\* maxResults: the most items the service puts in one page
PageSize == 100

\* page_token = None; a page token is the number of the page it asks for
NoToken == 0

RECURSIVE SumTo(_, _)
SumTo(sizes, n) == IF n = 0 THEN 0 ELSE sizes[n] + SumTo(sizes, n - 1)

\* The items a source holds are numbered from 1 in relevance order. kind says
\* what the item looks like to the code that reads it:
\*   "ok"       snippet.topLevelComment.snippet with a text and a numeric likeCount
\*   "blank"    the same with a textDisplay that is empty after strip()
\*   "badlike"  the same with a likeCount that int() rejects
\*   "broken"   no snippet.topLevelComment.snippet
\*   "symbols"  like "ok", with a text of punctuation only
\*   "stopword" like "ok", with a text of English stopwords only
ItemKind(pattern, k) ==
    IF pattern = "clean" THEN "ok"
    ELSE IF pattern = "symbols" THEN "symbols"
    ELSE IF pattern = "stopwords" THEN "stopword"
    ELSE CASE k % 5 = 2 -> "blank"
           [] k % 5 = 3 -> "broken"
           [] k % 5 = 4 -> "badlike"
           [] OTHER     -> "ok"

Item(s, k) == [id |-> k, kind |-> ItemKind(s.kinds, k)]

NumPages(s) == Len(s.sizes)
TotalItems(s) == SumTo(s.sizes, NumPages(s))
PageItems(s, p) == [i \in 1..s.sizes[p] |-> Item(s, SumTo(s.sizes, p - 1) + i)]
AllItems(s) == [k \in 1..TotalItems(s) |-> Item(s, k)]

\* A response: kind "neterr" when session.get itself raises (timeout, connection
\* error), else "http" with a status code and a body. body.json: whether the body
\* parses as a JSON object. body.error: the "error" member (None when absent), with
\* its "code" (None when absent) and its "errors" list (None when absent), each
\* entry of which is its "reason" (None when absent).
OkBody(its, next) == [json |-> TRUE, items |-> its, nextPageToken |-> next, error |-> None]
ErrorBody(isjson, err) == [json |-> isjson, items |-> <<>>, nextPageToken |-> NoToken, error |-> err]
HttpResponse(status, body) == [kind |-> "http", status_code |-> status, body |-> body]
NetError == [kind |-> "neterr", status_code |-> 0, body |-> ErrorBody(FALSE, None)]

\* the answer of source s to GET commentThreads with the given pageToken
CommentPage(s, token) ==
    LET p == IF token = NoToken THEN 1 ELSE token
    IN  IF s.failAt = p THEN s.errResp
        ELSE HttpResponse(200, OkBody(PageItems(s, p), IF p < NumPages(s) THEN p + 1 ELSE NoToken))

\* the answer of source s to GET videos
VideoPage(s) ==
    CASE s.meta = "error" -> s.errResp
      [] s.meta = "empty" -> HttpResponse(200, OkBody(<<>>, NoToken))
      [] OTHER            -> HttpResponse(200, OkBody(<<[id |-> 0, kind |-> s.meta]>>, NoToken))

(***************************************************************************)
(* raise_api_error                                                         *)
(***************************************************************************)
RECURSIVE IntToStr(_)
\* Python: str(n) for n >= 0
IntToStr(n) ==
    IF n < 10 THEN Ch(DigitAlphabet, n + 1)
    ELSE IntToStr(n \div 10) \o Ch(DigitAlphabet, (n % 10) + 1)

RuntimeError(msg) == Some([type |-> "RuntimeError", msg |-> msg])
OtherException == Some([type |-> "Exception", msg |-> ""])

\* f"{code}:{reason}"
ErrorMessage(code, reason) == IntToStr(code) \o ":" \o reason

\* app.py: reason = data["error"]["errors"][0].get("reason", ""), "" on any
\* exception; the code is resp.status_code
ReasonApp(body) ==
    IF ~body.json \/ body.error = None THEN ""
    ELSE LET errors == body.error[1].errors
         IN  IF errors = None \/ errors[1] = <<>> THEN ""
             ELSE IF errors[1][1] = None THEN "" ELSE errors[1][1][1]

RaiseApiErrorApp(resp) == RuntimeError(ErrorMessage(resp.status_code, ReasonApp(resp.body)))

\* pages 01, 03, 04: reason and code are read in one try block:
\* data.get("error", {}).get("errors", [{}])[0].get("reason", "") and
\* data.get("error", {}).get("code", resp.status_code); on any exception the
\* reason is "" and the code is resp.status_code
PagesTryFails(body) ==
    \/ ~body.json
    \/ body.error # None /\ body.error[1].errors # None /\ body.error[1].errors[1] = <<>>

\* the reason of the last entry of the errors list, for the first
ReasonPagesLast(body) ==
    IF PagesTryFails(body) \/ body.error = None THEN ""
    ELSE LET errors == body.error[1].errors
         IN  IF errors = None THEN ""
             ELSE IF errors[1][Len(errors[1])] = None THEN "" ELSE errors[1][Len(errors[1])][1]

ReasonPages(body) ==
    IF PagesTryFails(body) \/ body.error = None THEN ""
    ELSE LET errors == body.error[1].errors
         IN  IF errors = None THEN ""
             ELSE IF errors[1][1] = None THEN "" ELSE errors[1][1][1]

CodePages(resp) ==
    IF PagesTryFails(resp.body) \/ resp.body.error = None THEN resp.status_code
    ELSE IF resp.body.error[1].code = None THEN resp.status_code
    ELSE resp.body.error[1].code[1]

RaiseApiErrorPages(resp) == RuntimeError(ErrorMessage(CodePages(resp), ReasonPages(resp.body)))

\* the copy of raise_api_error that function f calls
raise_api_error(f, resp) ==
    IF f = "fetch_all_comments" THEN RaiseApiErrorApp(resp) ELSE RaiseApiErrorPages(resp)


(***************************************************************************)
(* The fetch functions: fetch_all_comments (app.py), fetch_comment_texts   *)
(* (01), get_video_published_at and fetch_comments (03),                   *)
(* fetch_comments_and_title (04)                                           *)
(***************************************************************************)
\* the cap test with > for >=
ReachedCapStrict(n, c) == c # None /\ n > c[1]

\* the cap test without the count
ReachedCapAny(n, c) == c # None

\* len(items) >= max_total, with isinstance(limit, int) where the limit may be None
ReachedCap(n, c) == c # None /\ n >= c[1]

\* the list left as long as it is
TruncateKeepsAll(its, c) == its

\* items[:max_total]
Truncate(its, c) == SubSeq(its, 1, IF c[1] < Len(its) THEN c[1] ELSE Len(its))

\* the try block of the per-item loop raises: the item is skipped by continue
ItemRaises(f, it) ==
    IF f = "fetch_comment_texts" THEN it.kind = "broken"
    ELSE it.kind \in {"broken", "badlike"}

\* the per-item loop appends: fetch_comment_texts only a text that is not empty
ItemAppends(f, it) ==
    IF f = "fetch_comment_texts" THEN it.kind # "blank" ELSE TRUE

\* for it in data.get("items", []): of fetch_comment_texts and
\* fetch_comments_and_title; returned: the loop was left by return. An item whose
\* try block raises is skipped by continue, before the cap test; the test follows
\* every other item. So with room left under the cap the loop returns right after
\* the append that fills it, and with none left after the first item that does
\* not raise.
ItemLoop(f, acc, its, c) ==
    LET accepted == SelectSeq(its, LAMBDA it : ~ItemRaises(f, it) /\ ItemAppends(f, it))
        tested   == SelectSeq(its, LAMBDA it : ~ItemRaises(f, it))
    IN  IF c = None
        THEN [items |-> acc \o accepted, returned |-> FALSE]
        ELSE IF c[1] > Len(acc)
        THEN IF Len(accepted) >= c[1] - Len(acc)
             THEN [items |-> acc \o SubSeq(accepted, 1, c[1] - Len(acc)), returned |-> TRUE]
             ELSE [items |-> acc \o accepted, returned |-> FALSE]
        ELSE IF tested = <<>>
        THEN [items |-> acc, returned |-> FALSE]
        ELSE [items |-> IF ItemAppends(f, tested[1]) THEN Append(acc, tested[1]) ELSE acc,
              returned |-> TRUE]

\* items.extend(data.get("items", [])) and the cap test of fetch_all_comments
\* and fetch_comments
ExtendLoop(acc, its, c) ==
    IF ReachedCap(Len(acc \o its), c)
    THEN [items |-> Truncate(acc \o its, c), returned |-> TRUE]
    ELSE [items |-> acc \o its, returned |-> FALSE]

PerItemFns == {"fetch_comment_texts", "fetch_comments_and_title"}

\* session.get(...) raises, or resp.json() does on a 200 response
RequestRaises(resp) == resp.kind = "neterr" \/ (resp.status_code = 200 /\ ~resp.body.json)

\* a failing page that ends the function with what it has so far
PageFailureKeepsPartial(f, acc, resp) ==
    [items |-> acc, token |-> NoToken, next |-> "returned", exc |-> None]

\* if resp.status_code != 200: raise_api_error(resp), and the exceptions of the
\* request itself: the function ends by an exception
PageFailure(f, acc, resp) ==
    [items |-> acc, token |-> NoToken, next |-> "raised",
     exc |-> IF RequestRaises(resp) THEN OtherException ELSE raise_api_error(f, resp)]

\* one pass of the while loop of fetch function f after the response arrived:
\* next is "loop" (another pass), "returned" or "raised"
ProcessPage(f, acc, resp, c) ==
    IF RequestRaises(resp) \/ resp.status_code # 200
    THEN PageFailure(f, acc, resp)
    ELSE LET r == IF f \in PerItemFns THEN ItemLoop(f, acc, resp.body.items, c)
                  ELSE ExtendLoop(acc, resp.body.items, c)
         IN  IF r.returned \/ resp.body.nextPageToken = NoToken
             THEN [items |-> r.items, token |-> resp.body.nextPageToken, next |-> "returned", exc |-> None]
             ELSE [items |-> r.items, token |-> resp.body.nextPageToken, next |-> "loop", exc |-> None]

\* the videos request of get_video_published_at and fetch_comments_and_title:
\* next is "loop" (go on), or "raised"
ProcessVideo(f, resp) ==
    IF RequestRaises(resp)
    THEN [next |-> "raised", exc |-> OtherException]
    ELSE IF resp.status_code # 200
    THEN [next |-> "raised", exc |-> raise_api_error(f, resp)]
    ELSE IF resp.body.items = <<>>
    THEN [next |-> "raised", exc |-> RuntimeError("404:notFound")]
    ELSE [next |-> "loop", exc |-> None]

Request(endpoint, token) == [endpoint |-> endpoint, pageToken |-> token]

\* a request that never carries a cursor
CommentRequestNoCursor(token) == Request("commentThreads", NoToken)

\* if page_token: params["pageToken"] = page_token, else: params.pop("pageToken"):
\* the commentThreads request of a pass with the page_token of the pass before
CommentRequest(token) == Request("commentThreads", token)


(***************************************************************************)
(* Text. A Python str is the sequence of its code points, so that Hangul    *)
(* and Latin text are told apart as the regular expressions tell them.     *)
(***************************************************************************)
IndexIn(s, c) == CHOOSE i \in 1..Len(s) : Ch(s, i) = c

\* ord(c) of the ASCII characters the literals of this module use
Ord(c) ==
    IF Contains(UpperAlphabet, c) THEN 64 + IndexIn(UpperAlphabet, c)
    ELSE IF Contains(LowerAlphabet, c) THEN 96 + IndexIn(LowerAlphabet, c)
    ELSE IF Contains(DigitAlphabet, c) THEN 47 + IndexIn(DigitAlphabet, c)
    ELSE IF Contains(" !", c) THEN 31 + IndexIn(" !", c)
    ELSE 42 + IndexIn("+,-.", c)

\* the str written as an ASCII literal
Str(s) == [i \in 1..Len(s) |-> Ord(Ch(s, i))]

\* the character classes of the regular expressions and of str methods
IsLatin(c) == c \in 65..90 \/ c \in 97..122
IsDigit(c) == c \in 48..57
\* [U+AC00-U+D7A3], the Hangul syllables
IsHangul(c) == c \in 44032..55203
\* [U+3131-U+314E] and [U+314F-U+3163], the Hangul compatibility consonants and vowels
IsJaum(c) == c \in 12593..12622
IsMoum(c) == c \in 12623..12643
\* str.isspace, for the whitespace the inputs hold
IsSpace(c) == c \in {9, 10, 11, 12, 13, 32}

\* a letter class that takes the Hangul consonants and vowels as well
InClassWithJamo(cls, c) ==
    CASE cls = "letters_hangul" -> IsLatin(c) \/ IsHangul(c) \/ IsJaum(c) \/ IsMoum(c)
      [] cls = "alnum_hangul"   -> IsLatin(c) \/ IsHangul(c) \/ IsDigit(c)
      [] cls = "nonspace"       -> ~IsSpace(c)
      [] cls = "noncomma"       -> c # 44
      [] cls = "digit"          -> IsDigit(c)

InClass(cls, c) ==
    CASE cls = "letters_hangul" -> IsLatin(c) \/ IsHangul(c)
      [] cls = "alnum_hangul"   -> IsLatin(c) \/ IsHangul(c) \/ IsDigit(c)
      [] cls = "nonspace"       -> ~IsSpace(c)
      [] cls = "noncomma"       -> c # 44
      [] cls = "digit"          -> IsDigit(c)

\* str.lower(), for Latin letters (Hangul has no case)
PyLower(t) == [i \in 1..Len(t) |-> IF t[i] \in 65..90 THEN t[i] + 32 ELSE t[i]]

\* t.replace("\n", " ")
ReplaceNewline(t) == [i \in 1..Len(t) |-> IF t[i] = 10 THEN 32 ELSE t[i]]

\* str.strip()
PyStrip(t) ==
    LET keep == {i \in 1..Len(t) : ~IsSpace(t[i])}
    IN  IF keep = {} THEN <<>>
        ELSE SubSeq(t, CHOOSE i \in keep : \A j \in keep : i <= j,
                       CHOOSE i \in keep : \A j \in keep : i >= j)

NthSmallest(S, n) == CHOOSE x \in S : Cardinality({y \in S : y < x}) = n - 1

\* re.findall(r"[class]+", t): the maximal runs of characters of a class, in order
RunStarts(t, cls) ==
    {i \in 1..Len(t) : InClass(cls, t[i]) /\ (i = 1 \/ ~InClass(cls, t[i - 1]))}
RunEnd(t, cls, i) ==
    CHOOSE j \in i..Len(t) : /\ \A k \in i..j : InClass(cls, t[k])
                             /\ (j = Len(t) \/ ~InClass(cls, t[j + 1]))
Runs(t, cls) ==
    LET st == RunStarts(t, cls)
    IN  [n \in 1..Cardinality(st) |->
            SubSeq(t, NthSmallest(st, n), RunEnd(t, cls, NthSmallest(st, n)))]

RECURSIVE Flatten(_)
\* all_tokens.extend(toks) for each text in turn
Flatten(seqs) == IF seqs = <<>> THEN <<>> ELSE Head(seqs) \o Flatten(Tail(seqs))

\* the number of times w occurs in ws
CountIn(ws, w) == Cardinality({i \in 1..Len(ws) : ws[i] = w})

(***************************************************************************)
(* Stopwords (page 04)                                                     *)
(***************************************************************************)
\* STOPWORDS of the wordcloud package: the entries of letters only, and those
\* with an apostrophe
WC_STOPWORDS ==
    {Str(w) : w \in

      {"a", "about", "above", "after", "again", "against", "all", "also", "am", "an", "and", "any",
       "are", "as", "at", "be", "because", "been", "before", "being", "below", "between", "both",
       "but", "by", "can", "cannot", "com", "could", "did", "do", "does", "doing", "down", "during",
       "each", "else", "ever", "few", "for", "from", "further", "get", "had", "has", "have",
       "having", "he", "hence", "her", "here", "hers", "herself", "him", "himself", "his", "how",
       "however", "http", "i", "if", "in", "into", "is", "it", "its", "itself", "just", "k", "like",
       "me", "more", "most", "my", "myself", "no", "nor", "not", "of", "off", "on", "once", "only",
       "or", "other", "otherwise", "ought", "our", "ours", "ourselves", "out", "over", "own", "r",
       "same", "shall", "she", "should", "since", "so", "some", "such", "than", "that", "the",
       "their", "theirs", "them", "themselves", "then", "there", "therefore", "these", "they",
       "this", "those", "through", "to", "too", "under", "until", "up", "upon", "very", "was", "we",
       "were", "what", "when", "where", "which", "while", "who", "whom", "why", "with", "would",
       "www", "you", "your", "yours", "yourself", "yourselves"}}
    \cup {Str(Slice(w, 1, Find(w, "_", 1) - 1)) \o <<39>> \o Str(Slice(w, Find(w, "_", 1) + 1, Len(w))) : w \in
      {"aren_t", "can_t", "couldn_t", "didn_t", "doesn_t", "don_t", "hadn_t", "hasn_t", "haven_t",
       "he_d", "he_ll", "he_s", "here_s", "how_s", "i_d", "i_ll", "i_m", "i_ve", "isn_t", "it_s",
       "let_s", "mustn_t", "shan_t", "she_d", "she_ll", "she_s", "shouldn_t", "that_s", "there_s",
       "they_d", "they_ll", "they_re", "they_ve", "wasn_t", "we_d", "we_ll", "we_re", "we_ve",
       "weren_t", "what_s", "when_s", "where_s", "who_s", "why_s", "won_t", "wouldn_t", "you_d",
       "you_ll", "you_re", "you_ve"}}

\* STOP_KO_BASE, by code points
STOP_KO_BASE ==
    {<<44032>>, <<44032, 44620, 51060>>, <<44032, 47161>>, <<44033>>, <<44033, 44033>>, <<44033,
     51088>>, <<44033, 51333>>, <<44036>>, <<44036, 45800>>, <<44036, 54841>>, <<44040, 49688,
     47197>>, <<44048, 49324>>, <<44049, 51088, 44592>>, <<44050>>, <<44053>>, <<44144>>, <<44144,
     44592>>, <<44144, 45208>>, <<44144, 51032>>, <<44148>>, <<44163>>, <<44172>>, <<44172, 45796,
     44032>>, <<44200, 50864>>, <<44208, 44284>>, <<44208, 44397>>, <<44208, 53076>>, <<44216>>,
     <<44221, 50864>>, <<44228, 49549>>, <<44256>>, <<44256, 47140>>, <<44263>>, <<44264>>,
     <<44275>>, <<44277>>, <<44284>>, <<44284, 44144>>, <<44284, 50672>>, <<44288, 44228>>, <<44288,
     47144>>, <<44288, 54644>>, <<44368>>, <<44396>>, <<44396, 52404>>, <<44397>>, <<44400, 45936>>,
     <<44428>>, <<44536>>, <<44536, 32, 111, 119, 105, 110, 103>>, <<44536, 44144>>, <<44536,
     44163>>, <<44536, 45216>>, <<44536, 45285>>, <<44536, 45376>>, <<44536, 46308>>, <<44536,
     46412>>, <<44536, 47000>>, <<44536, 47000, 49436>>, <<44536, 47084, 45208>>, <<44536, 47084,
     47732>>, <<44536, 47084, 48064, 47196>>, <<44536, 47088>>, <<44536, 47088, 45936>>, <<44536,
     47092>>, <<44536, 47100>>, <<44536, 47111, 44172>>, <<44536, 47353>>, <<44536, 47564>>,
     <<44536, 48150>>, <<44536, 48516>>, <<44536, 50556, 47568, 47196>>, <<44536, 51204>>, <<44536,
     51473>>, <<44540, 44144>>, <<44540, 45936>>, <<44540, 48376>>, <<44540, 52376>>, <<44544,
     50052>>, <<44552, 48169>>, <<44592, 44036>>, <<44596>>, <<44618, 51060>>, <<44620, 45805>>,
     <<44620, 51648>>, <<45208>>, <<45208, 47492>>, <<45208, 47672, 51648>>, <<45208, 50500,
     44032>>, <<45208, 51473>>, <<45224>>, <<45320>>, <<45320, 47924>>, <<45347>>, <<45348>>,
     <<45380>>, <<45400>>, <<45432>>, <<45440, 46972>>, <<45458>>, <<45459>>, <<45572, 44032>>,
     <<45572, 44396>>, <<45576>>, <<45684, 49828>>, <<45712, 44788>>, <<45712, 45196>>, <<45734,
     44172>>, <<45796>>, <<45796, 47564>>, <<45796, 49548>>, <<45796, 49884>>, <<45796, 50577>>,
     <<45800>>, <<45800, 49692>>, <<45804>>, <<45812>>, <<45824>>, <<45824, 47196>>, <<45824, 48512,
     48516>>, <<45824, 48708>>, <<45824, 49888>>, <<45824, 54616, 50668>>, <<45824, 54620>>,
     <<45916>>, <<45936>>, <<46020>>, <<46020, 45824, 52404>>, <<46020, 47196>>, <<46020, 47196,
     49436>>, <<46020, 50880>>, <<46041, 49884>>, <<46041, 50504>>, <<46041, 50504, 50640>>,
     <<46244>>, <<46300>>, <<46304, 51648>>, <<46308>>, <<46321>>, <<46321, 46321>>, <<46385>>,
     <<46412>>, <<46412, 47928>>, <<46608>>, <<46608, 45716>>, <<46608, 54620>>, <<46972, 47728>>,
     <<46972, 49436>>, <<47196>>, <<47196, 45208>>, <<47196, 45208, 47560>>, <<47196, 48512,
     53552>>, <<47196, 49436>>, <<47217>>, <<47336>>, <<47532>>, <<47560, 45285>>, <<47560, 45796>>,
     <<47560, 51200>>, <<47560, 52824>>, <<47564>>, <<47564, 45208>>, <<47564, 46308>>, <<47564,
     50557>>, <<47564, 51068>>, <<47564, 53372>>, <<47566, 51060>>, <<47568>>, <<47568, 47196>>,
     <<47568, 54616>>, <<47576>>, <<47588, 50864>>, <<47672>>, <<47676, 51200>>, <<47680, 47532>>,
     <<47728>>, <<47732>>, <<47732, 49436>>, <<47751>>, <<47784, 46160>>, <<47784, 46304>>, <<47784,
     52376, 47100>>, <<47924, 49832>>, <<47924, 50631>>, <<47924, 52377>>, <<47928>>, <<47928,
     51228>>, <<47928, 54868>>, <<48064, 47196>>, <<48143>>, <<48148>>, <<48148, 44645>>, <<48148,
     47196>>, <<48148, 53461>>, <<48149>>, <<48150>>, <<48152, 47732>>, <<48155>>, <<48156>>,
     <<48156, 44204>>, <<48156, 54364>>, <<48169, 44552>>, <<48169, 48277>>, <<48264>>, <<48324>>,
     <<48337>>, <<48372, 44256>>, <<48372, 45236>>, <<48372, 45796>>, <<48372, 53685>>, <<48388>>,
     <<48512>>, <<48512, 48516>>, <<48512, 51313>>, <<48652>>, <<48708>>, <<48708, 47215>>, <<48708,
     54644>>, <<48744, 47532>>, <<49104>>, <<49104, 47564>>, <<49104, 51060, 45796>>, <<49324,
     46988>>, <<49324, 49892>>, <<49324, 50857>>, <<49324, 51060>>, <<49324, 54637>>, <<49324,
     54924>>, <<49328>>, <<49332, 51677>>, <<49345>>, <<49345, 44288>>, <<49345, 45817>>, <<49345,
     45824>>, <<49345, 49464>>, <<49345, 53468>>, <<49345, 54889>>, <<49352>>, <<49373, 44033>>,
     <<49373, 49328>>, <<49436, 47196>>, <<49436, 49436, 55176>>, <<49440>>, <<49440, 53469>>,
     <<49444, 47749>>, <<49457>>, <<49464>>, <<49464, 44228>>, <<49464, 45824>>, <<49468>>,
     <<49548>>, <<49548, 49688>>, <<49549>>, <<49552>>, <<49556, 51649>>, <<49688>>, <<49688,
     51456>>, <<49692, 44036>>, <<49692, 49436>>, <<49772, 50868>>, <<49789, 44172>>, <<49828,
     49828, 47196>>, <<49845, 44288>>, <<49884, 44036>>, <<49884, 44592>>, <<49884, 45824>>,
     <<49884, 51089>>, <<49884, 51216>>, <<49884, 54744>>, <<49885>>, <<49888>>, <<49892>>, <<49892,
     51228>>, <<49892, 51228, 47196>>, <<49900, 51648, 50612>>, <<49910>>, <<50416>>, <<50500>>,
     <<50500, 44620>>, <<50500, 45768>>, <<50500, 45768, 46972>>, <<50500, 45768, 50836>>, <<50500,
     45772>>, <<50500, 47560>>, <<50500, 47924>>, <<50500, 50696>>, <<50500, 51452>>, <<50500,
     51649>>, <<50504>>, <<50504, 50640>>, <<50506>>, <<50508>>, <<50526>>, <<50557>>, <<50557,
     44036>>, <<50577>>, <<50612, 45712>>, <<50612, 46412>>, <<50612, 46500>>, <<50612, 46523,
     44172>>, <<50612, 47140>>, <<50612, 50872>>, <<50612, 51788, 47732>>, <<50612, 52236>>,
     <<50616, 51228>>, <<50620, 47560>>, <<50628, 52397>>, <<50633>>, <<50640, 44172>>, <<50640,
     44172, 49436>>, <<50640, 49436>>, <<50668, 44592>>, <<50668, 47084>>, <<50668, 47084, 48516>>,
     <<50668, 51204, 55176>>, <<50668, 53948>>, <<50672, 44396>>, <<50672, 49549>>, <<50676>>,
     <<50689>>, <<50696>>, <<50696, 47484>>, <<50696, 49696>>, <<50696, 51204>>, <<50724, 45720>>,
     <<50724, 47000>>, <<50724, 55176, 47140>>, <<50752>>, <<50780>>, <<50808>>, <<50836>>, <<50836,
     51608>>, <<50864>>, <<50864, 47532>>, <<50864, 49440>>, <<50868>>, <<50896>>, <<50896, 47000>>,
     <<50896, 51064>>, <<50900>>, <<50948>>, <<50948, 54644>>, <<50976>>, <<50977>>, <<51008>>,
     <<51008, 44540>>, <<51012>>, <<51020>>, <<51060>>, <<51060, 44163>>, <<51060, 44275>>, <<51060,
     45216>>, <<51060, 45796>>, <<51060, 47000, 49436>>, <<51060, 47084>>, <<51060, 47084, 47732>>,
     <<51060, 47088>>, <<51060, 47092>>, <<51060, 47111, 44172>>, <<51060, 48264>>, <<51060,
     48516>>, <<51060, 49345>>, <<51060, 50556>>, <<51060, 50556, 47568, 47196>>, <<51060, 54980>>,
     <<51064>>, <<51064, 54644>>, <<51068>>, <<51068, 46412>>, <<51068, 48152>>, <<51068, 48512>>,
     <<51068, 48512, 47084>>, <<51076>>, <<51077, 51109>>, <<51088>>, <<51088, 44592>>, <<51088,
     44984>>, <<51088, 47532>>, <<51088, 49888>>, <<51088, 49888, 44048>>, <<51088, 51452>>,
     <<51089>>, <<51092>>, <<51096>>, <<51104, 44624>>, <<51109>>, <<51200>>, <<51200, 44144>>,
     <<51200, 44163>>, <<51200, 44592>>, <<51200, 45377>>, <<51200, 47084>>, <<51200, 47088>>,
     <<51200, 47111, 44172>>, <<51200, 48264>>, <<51200, 48516>>, <<51201>>, <<51204>>, <<51204,
     51088>>, <<51204, 52404>>, <<51204, 54784>>, <<51204, 54980>>, <<51216>>, <<51221, 46020>>,
     <<51221, 47532>>, <<51221, 47568>>, <<51221, 48512>>, <<51221, 51032>>, <<51221, 54869>>,
     <<51228>>, <<51228, 45824, 47196>>, <<51228, 51068>>, <<51312, 44552>>, <<51312, 52264>>,
     <<51316, 51116>>, <<51320>>, <<51328>>, <<51333>>, <<51452>>, <<51452, 51032>>, <<51460>>,
     <<51473>>, <<51473, 44036>>, <<51473, 50836>>, <<51593>>, <<51648>>, <<51648, 44552>>, <<51648,
     45208>>, <<51648, 45212>>, <<51648, 47564>>, <<51648, 49549>>, <<51648, 50669>>, <<51648,
     50896>>, <<51648, 51201>>, <<51652, 51676>>, <<51656>>, <<51901>>, <<52264>>, <<52264, 46972,
     47532>>, <<52280>>, <<52285>>, <<52286>>, <<52376>>, <<52376, 47100>>, <<52376, 51020>>,
     <<52380>>, <<52395>>, <<52395, 51704>>, <<52397>>, <<52404>>, <<52488>>, <<52509>>, <<52572,
     44256>>, <<52572, 44540>>, <<52572, 45824, 54620>>, <<52628, 44032>>, <<52628, 51221>>,
     <<52629>>, <<52712>>, <<52712, 51648>>, <<52769>>, <<52789>>, <<52824>>, <<52828>>, <<52852>>,
     <<53356>>, <<53360>>, <<53412>>, <<53440>>, <<53945, 48324>>, <<53945, 55176>>, <<53960>>,
     <<54028>>, <<54200>>, <<54217, 44512>>, <<54217, 49548>>, <<54252, 54632>>, <<54364>>,
     <<54400>>, <<54532, 47196>>, <<54596, 50836>>, <<54616>>, <<54616, 44172>>, <<54616, 44256>>,
     <<54616, 45208>>, <<54616, 45716>>, <<54616, 45768>>, <<54616, 50668>>, <<54616, 51648,
     47564>>, <<54620>>, <<54620, 45796>>, <<54620, 48264>>, <<54620, 54200>>, <<54624>>, <<54632>>,
     <<54644>>, <<54644, 46020>>, <<54644, 46020, 46076>>, <<54644, 49436>>, <<54644, 50556>>,
     <<54644, 50836>>, <<54664, 45716, 45936>>, <<54664, 45796>>, <<54664, 45912>>, <<54664, 50612,
     50836>>, <<54840>>, <<54841>>, <<54841, 49884>>, <<54841, 51008>>, <<54980>>, <<54980, 50640>>,
     <<55016, 50476>>}

\* set(w.lower() for w in STOP_KO_BASE)
StopKoLower == {PyLower(w) : w \in STOP_KO_BASE}

\* the user's entries taken as typed, without lower()
UserStopAsTyped(s) ==
    {PyStrip(w) : w \in {p \in {Runs(s, "noncomma")[i] : i \in 1..Len(Runs(s, "noncomma"))} : PyStrip(p) # <<>>}}

\* {w.strip().lower() for w in user_stop.split(",") if w.strip()}
UserStop(s) ==
    {PyLower(PyStrip(w)) : w \in {p \in {Runs(s, "noncomma")[i] : i \in 1..Len(Runs(s, "noncomma"))} : PyStrip(p) # <<>>}}

\* en_stop = set(WC_STOPWORDS), and the user's entries when there are any
EnStop(user) == WC_STOPWORDS \cup UserStop(user)

\* ko_stop = set(w.lower() for w in STOP_KO_BASE), and the user's entries
KoStop(user) == StopKoLower \cup UserStop(user)

(***************************************************************************)
(* Tokenizers                                                              *)
(***************************************************************************)
\* stopwords removed before the text is lowercased
TokensOfTextFilterFirst(t, stop_en, stop_ko) ==
    LET toks == SelectSeq(Runs(ReplaceNewline(t), "letters_hangul"), LAMBDA w : Len(w) >= 2)
        kept == SelectSeq(toks, LAMBDA w : w \notin stop_en /\ w \notin stop_ko)
    IN  [i \in 1..Len(kept) |-> PyLower(kept[i])]

\* tokens_from_texts, the body of its loop: pat.findall of [a-zA-Z<Hangul>]{2,} on the
\* lowercased text, then the stopwords are removed
TokensOfText(t, stop_en, stop_ko) ==
    LET toks == SelectSeq(Runs(PyLower(ReplaceNewline(t)), "letters_hangul"), LAMBDA w : Len(w) >= 2)
    IN  SelectSeq(toks, LAMBDA w : w \notin stop_en /\ w \notin stop_ko)

tokens_from_texts(ts, stop_en, stop_ko) ==
    Flatten([k \in 1..Len(ts) |-> TokensOfText(ts[k], stop_en, stop_ko)])

\* the runs of any length, lowercased
SimpleTokenizeAnyLength(text) ==
    LET toks == Runs(text, "alnum_hangul")
    IN  [i \in 1..Len(toks) |-> PyLower(toks[i])]

\* re.findall(r"[<Hangul>A-Za-z0-9]+", text), then t.lower() of those of length >= 2
simple_tokenize_korean_english(text) ==
    LET toks == SelectSeq(Runs(text, "alnum_hangul"), LAMBDA w : Len(w) >= 2)
    IN  [i \in 1..Len(toks) |-> PyLower(toks[i])]

\* soynlp's RegexTokenizer, number pattern [-+]?\d*[\.]?[\d]+|[-+]?\d+ : the length
\* of its match at position i of s, 0 when it does not match there
DigitRun(s, i) ==
    LET ns == {n \in 0..(Len(s) + 1 - i) : \A k \in 0..(n - 1) : IsDigit(s[i + k])}
    IN  CHOOSE n \in ns : \A m \in ns : m <= n
NumLen(s, i) ==
    LET sg  == IF s[i] \in {43, 45} THEN 1 ELSE 0
        d1  == DigitRun(s, i + sg)
        dot == i + sg + d1 <= Len(s) /\ s[i + sg + d1] = 46
        d2  == IF dot THEN DigitRun(s, i + sg + d1 + 1) ELSE 0
    IN  IF d2 > 0 THEN sg + d1 + 1 + d2 ELSE IF d1 > 0 THEN sg + d1 ELSE 0

RECURSIVE NumScan(_, _)
\* pattern.findall: the matches from position i on, left to right, as <<first, last>>
NumScan(s, i) ==
    IF i > Len(s) THEN {}
    ELSE IF NumLen(s, i) > 0 THEN {<<i, i + NumLen(s, i) - 1>>} \cup NumScan(s, i + NumLen(s, i))
    ELSE NumScan(s, i + 1)

\* which pattern of the pipeline takes position i: the number pattern, consonants,
\* vowels, Hangul syllables, Latin letters; "other" is what no pattern takes
SegType(s, nums, i) ==
    IF \E m \in nums : m[1] <= i /\ i <= m[2] THEN "num"
    ELSE IF IsJaum(s[i]) THEN "jaum"
    ELSE IF IsMoum(s[i]) THEN "moum"
    ELSE IF IsHangul(s[i]) THEN "hangul"
    ELSE IF IsLatin(s[i]) THEN "latin"
    ELSE "other"

\* RegexTokenizer._tokenize of a piece without whitespace: every match is set off by
\* spaces and the piece is split at them. The inputs hold no ' ` [ and no letters
\* beyond A-Z a-z, which the letter pattern of the library treats on their own.
RegexTokenizePiece(s) ==
    LET nums == NumScan(s, 1)
        ty(i) == SegType(s, nums, i)
        starts == {i \in 1..Len(s) :
                     IF ty(i) = "num" THEN \E m \in nums : m[1] = i
                     ELSE i = 1 \/ ty(i - 1) # ty(i)}
        last(i) == IF ty(i) = "num" THEN (CHOOSE m \in nums : m[1] = i)[2]
                   ELSE CHOOSE j \in i..Len(s) :
                          /\ \A k \in i..j : ty(k) = ty(i)
                          /\ (j = Len(s) \/ ty(j + 1) # ty(i))
    IN  [n \in 1..Cardinality(starts) |-> SubSeq(s, NthSmallest(starts, n), last(NthSmallest(starts, n)))]

\* RegexTokenizer().tokenize(t): the tokens of the pieces of t.split()
RegexTokenize(t) ==
    LET pieces == Runs(t, "nonspace")
    IN  Flatten([k \in 1..Len(pieces) |-> RegexTokenizePiece(pieces[k])])

\* re.fullmatch(r"[<Hangul>A-Za-z0-9]+", tok)
FullMatchWord(tok) == tok # <<>> /\ \A i \in 1..Len(tok) : InClass("alnum_hangul", tok[i])

\* count_top_words, the body of its loop: the tokens it takes from one text
RefinedOfText(t) ==
    LET toks    == SelectSeq(RegexTokenize(t), LAMBDA tok : Len(tok) >= 2)
        lowered == [i \in 1..Len(toks) |-> PyLower(toks[i])]
        refined == SelectSeq(lowered, FullMatchWord)
    IN  IF refined = <<>> THEN simple_tokenize_korean_english(t) ELSE refined

\* all_tokens of count_top_words
AllTokens(ts) == Flatten([k \in 1..Len(ts) |-> RefinedOfText(ts[k])])

\* Counter(all_tokens).items(): the distinct tokens in the order they first occur,
\* each with its count
CounterItems(ws) ==
    LET firsts == {i \in 1..Len(ws) : \A j \in 1..(i - 1) : ws[j] # ws[i]}
    IN  [n \in 1..Cardinality(firsts) |->
            [word |-> ws[NthSmallest(firsts, n)], count |-> CountIn(ws, ws[NthSmallest(firsts, n)])]]

\* a sort that puts an item before the items of the same count
InsertBeforeEqual(sorted, x) ==
    LET n == Cardinality({i \in 1..Len(sorted) : sorted[i].count > x.count})
    IN  SubSeq(sorted, 1, n) \o <<x>> \o SubSeq(sorted, n + 1, Len(sorted))

\* sorted(items, key=count, reverse=True), a stable sort, one item at a time: an item
\* goes after the items of a count that is not smaller
InsertByCount(sorted, x) ==
    LET n == Cardinality({i \in 1..Len(sorted) : sorted[i].count >= x.count})
    IN  SubSeq(sorted, 1, n) \o <<x>> \o SubSeq(sorted, n + 1, Len(sorted))

RECURSIVE SortByCount(_)
SortByCount(its) ==
    IF its = <<>> THEN <<>>
    ELSE InsertByCount(SortByCount(SubSeq(its, 1, Len(its) - 1)), its[Len(its)])

\* Counter.most_common(k): heapq.nlargest(k, items, key=count), which is
\* sorted(items, key=count, reverse=True)[:k]
MostCommon(ws, k) ==
    LET sorted == SortByCount(CounterItems(ws))
    IN  SubSeq(sorted, 1, IF k < Len(sorted) THEN k ELSE Len(sorted))

\* count_top_words: the rows of the DataFrame it returns
count_top_words(ts, k) ==
    IF AllTokens(ts) = <<>> THEN <<>> ELSE MostCommon(AllTokens(ts), k)

(***************************************************************************)
(* get_korean_font_path (page 04)                                          *)
(***************************************************************************)
FontFile == "NanumGothic.ttf"

FontUrls ==
    <<"https://raw.githubusercontent.com/google/fonts/main/ofl/nanumgothic/NanumGothic-Regular.ttf",
      "https://fonts.gstatic.com/s/nanumgothic/v26/PN_3Rfi-oW3hYwmKDpxS7F_DpDmS.woff2">>

\* u.endswith(suffix)
EndsWith(u, suffix) == Slice(u, Len(u) - Len(suffix) + 1, Len(u)) = suffix

\* what requests.get(u) and the write of the file come to:
\*   "ok"          200 with content, and the file is written
\*   "empty"       200 without content
\*   "not_found"   a status that is not 200
\*   "neterr"      requests.get raises
\*   "write_fails" 200 with content, and open() or write() raises
DownloadOutcomes == {"ok", "empty", "not_found", "neterr", "write_fails"}

\* one pass of the for loop over urls: "return" with a path, or "continue"
FontTryUrl(u, outcome) ==
    IF outcome \in {"ok", "write_fails"}
    THEN IF EndsWith(u, ".woff2") THEN [next |-> "continue", path |-> None]
         ELSE IF outcome = "ok" THEN [next |-> "return", path |-> Some(FontFile)]
         ELSE [next |-> "continue", path |-> None]
    ELSE [next |-> "continue", path |-> None]


(***************************************************************************)
(* The page scripts                                                        *)
(***************************************************************************)
Pages == {"app", "p01", "p03", "p04"}

\* st.secrets.get(name, default)
SecretsGet(store, name, default) == IF name \in DOMAIN store THEN store[name] ELSE default

api_key == SecretsGet(secrets, "youtube_api_key", "")

\* Python: bool(s) of a string, and of an Optional string
Bool(s) == s # ""

\* a test of the identifier that rejects nothing
FalsyNever(opt) == FALSE

Falsy(opt) == opt = None \/ opt[1] = ""

\* a button that is never disabled
ButtonDisabledNever(key) == FALSE

\* disabled=(not bool(api_key))
ButtonDisabled(key) == ~Bool(key)

Notice(level, text) == [level |-> level, text |-> text]

\* the script from its top to the trigger button: the notice of a missing key, the
\* input widgets, and the button
TopOfPage(key) ==
    [notices  |-> IF ~Bool(key) THEN <<Notice("error", "no_api_key")>> ELSE <<>>,
     inputs   |-> TRUE,
     disabled |-> ButtonDisabled(key),
     shown    |-> {}]

\* st.error / st.info / st.warning followed by st.stop(), or as the last statement
StopWith(o, level, text) == [o EXCEPT !.notices = Append(@, Notice(level, text))]
Show(o, things) == [o EXCEPT !.shown = @ \cup things]

RECURSIVE StrToInt(_)
\* Python: int(s) of a string of digits
StrToInt(s) ==
    IF s = "" THEN 0
    ELSE 10 * StrToInt(Slice(s, 1, Len(s) - 1))
         + ((CHOOSE i \in 1..Len(DigitAlphabet) : Ch(DigitAlphabet, i) = Ch(s, Len(s))) - 1)

\* def fetch_all_comments(..., max_total: int = 1000)
DefaultMaxTotal == 1000

\* the default values of the widgets; quick "all" is the radio option for no limit
DefaultWidgets == [quick |-> "100", slider_val |-> 500, max_comments |-> 1000]

\* the "all" option taken for a number of its own: the slider value
SelectLimitNoAll(w) ==
    LET quick_n == IF w.quick = "all" THEN 0 ELSE StrToInt(w.quick)
    IN  Some(IF quick_n >= w.slider_val THEN quick_n ELSE w.slider_val)

\* pages 01 and 03: limit = None for the "all" option, else max(quick_n, slider_val)
SelectLimit(w) ==
    IF w.quick = "all" THEN None
    ELSE LET quick_n == StrToInt(w.quick)
         IN  Some(IF quick_n >= w.slider_val THEN quick_n ELSE w.slider_val)

\* the cap the page passes to its fetch function
CapOf(pg, w) ==
    CASE pg = "app" -> Some(DefaultMaxTotal)
      [] pg \in {"p01", "p03"} -> SelectLimit(w)
      [] pg = "p04" -> Some(w.max_comments)

\* the function the page calls first after the URL was accepted, and the one
\* that collects the comments
FirstFn(pg) ==
    CASE pg = "app" -> "fetch_all_comments"
      [] pg = "p01" -> "fetch_comment_texts"
      [] pg = "p03" -> "get_video_published_at"
      [] pg = "p04" -> "fetch_comments_and_title"

\* the mapping without its test for 429
ClassifyMessageNo429(msg) ==
    IF \/ Contains(msg, "403") /\ (Contains(msg, "commentsDisabled") \/ Contains(msg, "forbidden"))
       \/ Contains(msg, "commentsDisabled")
    THEN "comments_disabled"
    ELSE IF Contains(msg, "quotaExceeded")
    THEN "quota"
    ELSE "generic"

\* except RuntimeError as e: the message shown for str(e)
ClassifyMessage(msg) ==
    IF \/ Contains(msg, "403") /\ (Contains(msg, "commentsDisabled") \/ Contains(msg, "forbidden"))
       \/ Contains(msg, "commentsDisabled")
    THEN "comments_disabled"
    ELSE IF Contains(msg, "quotaExceeded") \/ Contains(msg, "429")
    THEN "quota"
    ELSE "generic"

\* the try/except around the comment fetch: except RuntimeError, except Exception
HandleFetchError(exc) ==
    IF exc[1].type = "RuntimeError" THEN ClassifyMessage(exc[1].msg) ELSE "generic"

\* page 03's try/except around get_video_published_at: one message for all
HandleVideoError(pg, exc) ==
    IF pg = "p03" THEN "generic" ELSE HandleFetchError(exc)

\* build_comments_dataframe / build_dataframe: the rows, one per item whose
\* snippet can be read and whose likeCount is a number
DataframeRows(its) == SelectSeq(its, LAMBDA it : it.kind \notin {"broken", "badlike"})

\* textDisplay of the item, after .replace("\n", " ").strip()
ItemText(it) ==
    CASE it.kind = "blank"    -> <<>>
      [] it.kind = "symbols"  -> Str("!! ...")
      [] it.kind = "stopword" -> Str("The and")
      [] OTHER                -> Str("Great video ") \o <<52572, 44256, 50696, 50836>>

\* every text that is not empty taken to hold a word
HasWordWhenText(it) == ItemText(it) # <<>>

\* whether the page's tokenizer finds a word in the item's text: page 04
\* tokens_from_texts with its stopwords, page 01 count_top_words
HasWord(it) ==
    /\ ItemText(it) # <<>>
    /\ IF page = "p04"
       THEN TokensOfText(ItemText(it), EnStop(user_en_stop), KoStop(user_ko_stop)) # <<>>
       ELSE RefinedOfText(ItemText(it)) # <<>>

\* get_korean_font_path(): a path, or None
FontPaths == {None, Some("NanumGothic.ttf")}

\* the script after its fetch function returned its list
AfterFetch(pg, o, its, font_path) ==
    CASE pg = "app" ->
           IF DataframeRows(its) = <<>> THEN StopWith(o, "info", "no_comments")
           ELSE Show(o, {"table", "download"})
      [] pg = "p01" ->
           IF its = <<>> THEN StopWith(o, "info", "no_comments")
           ELSE IF \A i \in 1..Len(its) : ~HasWord(its[i]) THEN StopWith(o, "info", "no_words")
           ELSE Show(o, {"chart"})
      [] pg = "p03" ->
           IF DataframeRows(its) = <<>> THEN StopWith(o, "info", "no_comments")
           ELSE Show(o, {"table", "chart"})
      [] pg = "p04" ->
           IF its = <<>> THEN StopWith(o, "warning", "no_comments")
           ELSE IF \A i \in 1..Len(its) : ~HasWord(its[i]) THEN StopWith(o, "warning", "no_words")
           ELSE IF font_path = None THEN StopWith(o, "info", "no_font")
           ELSE Show(StopWith(o, "success", "wordcloud"), {"image", "download"})


(***************************************************************************)
(* Bounds and input sets                                                   *)
(***************************************************************************)
\* the most pages a source holds
MaxPages == 3

\* page sizes a source serves
SizeChoices == {0, 40, PageSize}

RECURSIVE SizeSeqs(_)
SizeSeqs(n) ==
    IF n = 0 THEN {<<>>}
    ELSE {Append(q, z) : q \in SizeSeqs(n - 1), z \in SizeChoices}

Shapes == UNION {SizeSeqs(n) : n \in 1..MaxPages}

\* the caps a fetch function is called with directly
Caps == {1, 40, PageSize, PageSize + 1, 250, 3 * PageSize}

Statuses == {400, 403, 429, 500}
Reasons == {"commentsDisabled", "forbidden", "quotaExceeded", "videoNotFound"}

\* a code in the body that differs from the status code of the response
OtherCode(status) == IF status = 403 THEN 400 ELSE 403

ErrorsLists ==
    {None, Some(<<>>), Some(<<None>>), Some(<<Some("quotaExceeded"), Some("forbidden")>>)}
    \cup {Some(<<Some(r)>>) : r \in Reasons}

ErrorBodies(status) ==
    {ErrorBody(FALSE, None), ErrorBody(TRUE, None)}
    \cup {ErrorBody(TRUE, Some([code |-> c, errors |-> e])) :
            c \in {None, Some(status), Some(OtherCode(status))}, e \in ErrorsLists}

\* the responses that are no success
ErrorResponses ==
    {NetError, HttpResponse(200, ErrorBody(FALSE, None))}
    \cup UNION {{HttpResponse(st, b) : b \in ErrorBodies(st)} : st \in Statuses}

\* a few of them
SomeErrorResponses ==
    {NetError,
     HttpResponse(403, ErrorBody(TRUE, Some([code |-> Some(403), errors |-> Some(<<Some("commentsDisabled")>>)]))),
     HttpResponse(403, ErrorBody(TRUE, Some([code |-> Some(403), errors |-> Some(<<Some("quotaExceeded")>>)]))),
     HttpResponse(500, ErrorBody(FALSE, None))}

Source(sizes, kinds, failAt, meta, errResp) ==
    [sizes |-> sizes, kinds |-> kinds, failAt |-> failAt, meta |-> meta, errResp |-> errResp]

Healthy(s) == s.failAt = 0 /\ s.meta = "ok"

\* the sources a fetch function is called against directly
FetchSources ==
    {Source(z, k, 0, "ok", NetError) : z \in Shapes, k \in {"clean", "mixed"}}
    \cup {Source(z, "clean", f, "ok", e) : z \in Shapes \cap SizeSeqs(2), f \in 1..2, e \in SomeErrorResponses}
    \cup {Source(<<PageSize>>, "clean", 0, m, e) : m \in {"error", "empty"}, e \in SomeErrorResponses}

\* one full page more than the default max_total holds
ManyPages == DefaultMaxTotal \div PageSize + 1

\* the sources behind a page
PageSources ==
    {Source([i \in 1..ManyPages |-> PageSize], "clean", 0, "ok", NetError)} \cup
    {Source(z, k, 0, "ok", NetError) : z \in {<<0>>, <<40>>, <<PageSize, 40>>},
                                       k \in {"clean", "mixed", "symbols", "stopwords"}}
    \cup {Source(<<PageSize, 40>>, "clean", 1, "ok", e) : e \in ErrorResponses}
    \cup {Source(<<PageSize, 40>>, "clean", 2, "ok", e) : e \in SomeErrorResponses}
    \cup {Source(<<40>>, "clean", 0, "error", e) : e \in SomeErrorResponses}
    \cup {Source(<<40>>, "clean", 0, m, NetError) : m \in {"empty", "baddate"}}

SecretStores ==
    {[n \in {} |-> ""], [n \in {"youtube_api_key"} |-> ""], [n \in {"youtube_api_key"} |-> "AIza-key"]}

PageUrls == {DEFAULT_URL, "https://example.com/watch", ""}

WidgetChoices ==
    {DefaultWidgets,
     [quick |-> "100", slider_val |-> 100, max_comments |-> 100],
     [quick |-> "all", slider_val |-> 500, max_comments |-> 200]}

NoOutput == [notices |-> <<>>, inputs |-> FALSE, disabled |-> FALSE, shown |-> {}]

(***************************************************************************)
(* Actions                                                                 *)
(***************************************************************************)
\* The user changes the URL field. The script runs again from its top, the trigger
\* not pressed; page 04 keeps its inputs in a form, which runs nothing before it
\* is submitted.
EditUrl(u) ==
    /\ pc = "idle"
    /\ page # "none"
    /\ u # url_input
    /\ url_input' = u
    /\ IF page = "p04"
       THEN UNCHANGED <<fetch_btn, video_id, fn, cap, items, page_token, reqs, raised, result, out>>
       ELSE /\ fetch_btn' = FALSE
            /\ video_id' = None
            /\ fn' = "none"
            /\ cap' = None
            /\ items' = <<>>
            /\ page_token' = NoToken
            /\ reqs' = <<>>
            /\ raised' = None
            /\ result' = None
            /\ out' = TopOfPage(api_key)
    /\ UNCHANGED <<page, secrets, src, widgets, pc>>
    /\ UNCHANGED textvars

\* The user changes the radio, a slider: as for the URL field
SetWidgets(w) ==
    /\ pc = "idle"
    /\ page \in {"p01", "p03", "p04"}
    /\ w # widgets
    /\ widgets' = w
    /\ IF page = "p04"
       THEN UNCHANGED <<fetch_btn, video_id, fn, cap, items, page_token, reqs, raised, result, out>>
       ELSE /\ fetch_btn' = FALSE
            /\ video_id' = None
            /\ fn' = "none"
            /\ cap' = None
            /\ items' = <<>>
            /\ page_token' = NoToken
            /\ reqs' = <<>>
            /\ raised' = None
            /\ result' = None
            /\ out' = TopOfPage(api_key)
    /\ UNCHANGED <<page, secrets, src, url_input, pc>>
    /\ UNCHANGED textvars

\* The user presses the trigger (a disabled button cannot be pressed): the script
\* runs to its first HTTP request, or stops at a URL with no identifier
Press ==
    /\ pc = "idle"
    /\ page # "none"
    /\ ~ButtonDisabled(api_key)
    /\ fetch_btn' = TRUE
    /\ video_id' = extract_video_id(url_input)
    /\ items' = <<>>
    /\ page_token' = NoToken
    /\ reqs' = <<>>
    /\ raised' = None
    /\ result' = None
    /\ IF Falsy(video_id')
       THEN /\ out' = StopWith(TopOfPage(api_key), "error", "invalid_url")
            /\ pc' = "idle"
            /\ fn' = "none"
            /\ cap' = None
       ELSE /\ out' = TopOfPage(api_key)
            /\ fn' = FirstFn(page)
            /\ cap' = CapOf(page, widgets)
            /\ pc' = IF page \in {"p03", "p04"} THEN "meta" ELSE "loop"
    /\ UNCHANGED <<page, secrets, src, url_input, widgets>>
    /\ UNCHANGED textvars

\* The videos request of get_video_published_at (03) and fetch_comments_and_title
\* (04), and what follows it up to the next request
MetaStep ==
    /\ pc = "meta"
    /\ LET r == ProcessVideo(fn, VideoPage(src))
       IN  /\ reqs' = Append(reqs, Request("videos", NoToken))
           /\ IF r.next = "raised"
              THEN /\ raised' = r.exc
                   /\ pc' = IF page = "none" THEN "raised" ELSE "idle"
                   /\ out' = IF page = "none" THEN out
                             ELSE StopWith(out, "error", HandleVideoError(page, r.exc))
                   /\ fn' = fn
              ELSE IF fn = "get_video_published_at" /\ src.meta = "baddate"
              THEN \* pd.to_datetime(published_utc, utc=True) raises
                   /\ raised' = None
                   /\ pc' = "idle"
                   /\ out' = StopWith(out, "error", "generic")
                   /\ fn' = fn
              ELSE /\ raised' = None
                   /\ pc' = "loop"
                   /\ out' = out
                   /\ fn' = IF fn = "get_video_published_at" THEN "fetch_comments" ELSE fn
    /\ UNCHANGED <<page, secrets, src, url_input, widgets, fetch_btn, video_id, cap, items,
                   page_token, result>>
    /\ UNCHANGED textvars

\* One pass of the while loop of the fetch function: the commentThreads request,
\* its response, and, when the function ends, the rest of the script
PageStep ==
    /\ pc = "loop"
    /\ LET q == CommentRequest(page_token)
           r == ProcessPage(fn, items, CommentPage(src, q.pageToken), cap)
       IN  /\ reqs' = Append(reqs, q)
           /\ items' = r.items
           /\ page_token' = r.token
           /\ raised' = r.exc
           /\ result' = IF r.next = "returned" THEN Some(r.items) ELSE None
           /\ pc' = IF r.next = "loop" THEN "loop" ELSE IF page = "none" THEN r.next ELSE "idle"
           /\ \E font_path \in FontPaths :
                out' = IF r.next = "loop" \/ page = "none" THEN out
                       ELSE IF r.next = "raised" THEN StopWith(out, "error", HandleFetchError(r.exc))
                       ELSE AfterFetch(page, out, r.items, font_path)
    /\ UNCHANGED <<page, secrets, src, url_input, widgets, fetch_btn, video_id, fn, cap>>
    /\ UNCHANGED textvars

\* extract_video_id called on its own
ExtractCall ==
    /\ pc = "url"
    /\ video_id' = extract_video_id(url_input)
    /\ pc' = "url_done"
    /\ UNCHANGED <<page, secrets, src, url_input, widgets, fetch_btn, fn, cap, items,
                   page_token, reqs, raised, result, out>>
    /\ UNCHANGED textvars

\* tokens_from_texts called as page 04 calls it, with the merged stopwords
TokensFromTextsCall ==
    /\ pc = "tok" /\ fn = "tokens_from_texts"
    /\ result' = Some(tokens_from_texts(texts, EnStop(user_en_stop), KoStop(user_ko_stop)))
    /\ pc' = "tok_done"
    /\ UNCHANGED <<page, secrets, src, url_input, widgets, fetch_btn, video_id, fn, cap, items,
                   page_token, reqs, raised, out>>
    /\ UNCHANGED textvars

\* simple_tokenize_korean_english called on one text
SimpleTokenizeCall ==
    /\ pc = "tok" /\ fn = "simple_tokenize_korean_english"
    /\ result' = Some(simple_tokenize_korean_english(texts[1]))
    /\ pc' = "tok_done"
    /\ UNCHANGED <<page, secrets, src, url_input, widgets, fetch_btn, video_id, fn, cap, items,
                   page_token, reqs, raised, out>>
    /\ UNCHANGED textvars

\* count_top_words called on a list of texts
CountTopWordsCall ==
    /\ pc = "tok" /\ fn = "count_top_words"
    /\ result' = Some(count_top_words(texts, topk))
    /\ pc' = "tok_done"
    /\ UNCHANGED <<page, secrets, src, url_input, widgets, fetch_btn, video_id, fn, cap, items,
                   page_token, reqs, raised, out>>
    /\ UNCHANGED textvars

\* get_korean_font_path up to its loop: the file of an earlier run is returned
FontStart ==
    /\ pc = "font"
    /\ IF font_env.cached
       THEN result' = Some(Some(FontFile)) /\ pc' = "font_done"
       ELSE result' = None /\ pc' = "font_try"
    /\ UNCHANGED <<page, secrets, src, url_input, widgets, fetch_btn, video_id, fn, cap, items,
                   page_token, reqs, raised, out>>
    /\ UNCHANGED textvars

\* one pass of its for loop: the next URL is the one after those already asked for
FontTry ==
    /\ pc = "font_try"
    /\ LET i == Len(reqs) + 1
           r == FontTryUrl(FontUrls[i], font_env.downloads[i])
       IN  /\ reqs' = Append(reqs, Request(FontUrls[i], NoToken))
           /\ IF r.next = "return" THEN result' = Some(r.path) /\ pc' = "font_done"
              ELSE IF i = Len(FontUrls) THEN result' = Some(None) /\ pc' = "font_done"
              ELSE result' = None /\ pc' = "font_try"
    /\ UNCHANGED <<page, secrets, src, url_input, widgets, fetch_btn, video_id, fn, cap, items,
                   page_token, raised, out>>
    /\ UNCHANGED textvars

(***************************************************************************)
(* Specifications                                                          *)
(***************************************************************************)
\* no text function is called, and page 04's stopword fields are left empty
NoFontEnv == [cached |-> FALSE, downloads |-> <<"neterr", "neterr">>]
NoTextCall ==
    /\ texts = <<>>
    /\ user_en_stop = <<>>
    /\ user_ko_stop = <<>>
    /\ topk = 20
    /\ font_env = NoFontEnv

\* The pages: each starts as its script leaves it when first loaded
Init ==
    /\ page \in Pages
    /\ secrets \in SecretStores
    /\ src \in IF Bool(api_key) THEN PageSources ELSE {s \in PageSources : s.errResp \in SomeErrorResponses}
    /\ url_input = DEFAULT_URL
    /\ widgets = DefaultWidgets
    /\ fetch_btn = FALSE
    /\ pc = "idle"
    /\ video_id = None
    /\ fn = "none"
    /\ cap = None
    /\ items = <<>>
    /\ page_token = NoToken
    /\ reqs = <<>>
    /\ raised = None
    /\ result = None
    /\ out = TopOfPage(api_key)
    /\ NoTextCall

Next ==
    \/ \E u \in PageUrls : EditUrl(u)
    \/ \E w \in WidgetChoices : SetWidgets(w)
    \/ Press
    \/ MetaStep
    \/ PageStep

Spec == Init /\ [][Next]_vars

\* The fetch functions, called directly against a source
FetchFns == {"fetch_all_comments", "fetch_comment_texts", "fetch_comments", "fetch_comments_and_title"}

\* limit may be None where the function tests isinstance(limit, int)
CapsOf(f) ==
    {Some(c) : c \in Caps} \cup (IF f \in {"fetch_comment_texts", "fetch_comments"} THEN {None} ELSE {})

InitFetch ==
    /\ page = "none"
    /\ secrets \in {[n \in {"youtube_api_key"} |-> "AIza-key"]}
    /\ src \in FetchSources
    /\ url_input = DEFAULT_URL
    /\ widgets = DefaultWidgets
    /\ fetch_btn = FALSE
    /\ fn \in FetchFns
    /\ cap \in CapsOf(fn)
    /\ pc = IF fn = "fetch_comments_and_title" THEN "meta" ELSE "loop"
    /\ video_id = Some("WXuK6gekU1Y")
    /\ items = <<>>
    /\ page_token = NoToken
    /\ reqs = <<>>
    /\ raised = None
    /\ result = None
    /\ out = NoOutput
    /\ NoTextCall

NextFetch == MetaStep \/ PageStep

SpecFetch == InitFetch /\ [][NextFetch]_vars

\* extract_video_id, called directly on a URL
InitUrl ==
    /\ page = "none"
    /\ secrets \in {[n \in {"youtube_api_key"} |-> "AIza-key"]}
    /\ src \in {Source(<<0>>, "clean", 0, "ok", NetError)}
    /\ url_input \in UrlInputs
    /\ widgets = DefaultWidgets
    /\ fetch_btn = FALSE
    /\ fn = "none"
    /\ cap = None
    /\ pc = "url"
    /\ video_id = None
    /\ items = <<>>
    /\ page_token = NoToken
    /\ reqs = <<>>
    /\ raised = None
    /\ result = None
    /\ out = NoOutput
    /\ NoTextCall

NextUrl == ExtractCall

SpecUrl == InitUrl /\ [][NextUrl]_vars


\* The tokenizers and the word counter, called directly on comment texts
TextSamples ==
    {Str("Great video!! ") \o <<52572, 44256, 50696, 50836>> \o Str(" ") \o <<12619, 12619>>,
     Str("THE the The video"),
     Str("abc123 2024 a1"),
     Str("a-12b, 3.14"),
     <<52572, 44256>> \o Str(" ") \o <<52572, 44256, 50696, 50836>> \o Str(" ") \o <<50689, 49345>>,
     Str("!! ..."),
     Str("Video video VIDEO great Great"),
     Str("line") \o <<10>> \o Str("Great LIKE"),
     Str("x y z 1"),
     Str("zz yy zz yy xx")}

TextLists == {<<a>> : a \in TextSamples} \cup {<<a, b>> : a \in TextSamples, b \in TextSamples}

UserEnStops == {<<>>, Str("video, Comment ,LIKE"), Str("GREAT,,  ")}
UserKoStops == {<<>>, <<50689, 49345>> \o Str(", ") \o <<52572, 44256, 50696, 50836>>, Str(" , ")}
TopKs == {1, 2, 20}

TokFns == {"tokens_from_texts", "simple_tokenize_korean_english", "count_top_words"}

InitTok ==
    /\ page = "none"
    /\ secrets \in {[n \in {"youtube_api_key"} |-> "AIza-key"]}
    /\ src \in {Source(<<0>>, "clean", 0, "ok", NetError)}
    /\ url_input = DEFAULT_URL
    /\ widgets = DefaultWidgets
    /\ fetch_btn = FALSE
    /\ fn \in TokFns
    /\ cap = None
    /\ pc = "tok"
    /\ video_id = None
    /\ items = <<>>
    /\ page_token = NoToken
    /\ reqs = <<>>
    /\ raised = None
    /\ result = None
    /\ out = NoOutput
    /\ texts \in IF fn = "simple_tokenize_korean_english" THEN {<<a>> : a \in TextSamples} ELSE TextLists
    /\ user_en_stop \in IF fn = "tokens_from_texts" THEN UserEnStops ELSE {<<>>}
    /\ user_ko_stop \in IF fn = "tokens_from_texts" THEN UserKoStops ELSE {<<>>}
    /\ topk \in IF fn = "count_top_words" THEN TopKs ELSE {20}
    /\ font_env = NoFontEnv

NextTok == TokensFromTextsCall \/ SimpleTokenizeCall \/ CountTopWordsCall

SpecTok == InitTok /\ [][NextTok]_vars

\* get_korean_font_path, called in each state of the temporary directory and the
\* two downloads
InitFont ==
    /\ page = "none"
    /\ secrets \in {[n \in {"youtube_api_key"} |-> "AIza-key"]}
    /\ src \in {Source(<<0>>, "clean", 0, "ok", NetError)}
    /\ url_input = DEFAULT_URL
    /\ widgets = DefaultWidgets
    /\ fetch_btn = FALSE
    /\ fn = "get_korean_font_path"
    /\ cap = None
    /\ pc = "font"
    /\ video_id = None
    /\ items = <<>>
    /\ page_token = NoToken
    /\ reqs = <<>>
    /\ raised = None
    /\ result = None
    /\ out = NoOutput
    /\ texts = <<>>
    /\ user_en_stop = <<>>
    /\ user_ko_stop = <<>>
    /\ topk = 20
    /\ font_env \in [cached : BOOLEAN, downloads : [1..2 -> DownloadOutcomes]]

NextFont == FontStart \/ FontTry

SpecFont == InitFont /\ [][NextFont]_vars


(***************************************************************************)
(* Properties                                                              *)
(***************************************************************************)
CommentRequests == SelectSeq(reqs, LAMBDA q : q.endpoint = "commentThreads")

CeilDiv(a, b) == (a + b - 1) \div b

\* every page but the last holds PageSize items
FullPages(s) == \A p \in 1..(NumPages(s) - 1) : s.sizes[p] = PageSize

\* the items of its that function f puts in its list
AcceptedBy(f, its) ==
    IF f \in PerItemFns
    THEN SelectSeq(its, LAMBDA it : ~ItemRaises(f, it) /\ ItemAppends(f, it))
    ELSE its

\* C1: against a source of full pages of well-formed items that holds at least c
\* items, a fetch with cap c >= 1 never raises, never issues more than
\* ceil(c / PageSize) commentThreads requests, and returns exactly the first c items
\* after exactly that many requests (cap 250: 250 items, 3 requests).
C1_CapPagination ==
    (/\ cap # None
     /\ Healthy(src) /\ src.kinds = "clean" /\ FullPages(src)
     /\ TotalItems(src) >= cap[1])
    => /\ pc # "raised"
       /\ Len(CommentRequests) <= CeilDiv(cap[1], PageSize)
       /\ pc = "returned" =>
            /\ Len(result[1]) = cap[1]
            /\ result[1] = SubSeq(AllItems(src), 1, cap[1])
            /\ Len(CommentRequests) = CeilDiv(cap[1], PageSize)

C1_Witness ==
    /\ pc = "returned"
    /\ cap = Some(250)
    /\ src.sizes = <<PageSize, PageSize, PageSize>>
    /\ Len(result[1]) = 250
    /\ Len(CommentRequests) = 3

\* C2: with a cap larger than the number of items the source holds (and no
\* failing response), the fetch ends: it never raises; while it is in its loop it
\* has issued fewer requests than the source has pages, and every pass issues one
\* more, so the loop cannot go on for ever; and it returns every item it accepts,
\* after one request per page up to the first page without a cursor.
C2_CursorExhausted ==
    (cap # None /\ Healthy(src) /\ cap[1] > TotalItems(src))
    => /\ pc \in {"meta", "loop", "returned"}
       /\ pc = "loop" => /\ Len(CommentRequests) < NumPages(src)
                         /\ page_token = (IF reqs = <<>> \/ reqs[Len(reqs)].endpoint = "videos"
                                          THEN NoToken ELSE Len(CommentRequests) + 1)
       /\ pc = "returned" =>
            /\ result = Some(AcceptedBy(fn, AllItems(src)))
            /\ Len(CommentRequests) = NumPages(src)

C2_Witness ==
    /\ pc = "returned"
    /\ cap # None /\ Healthy(src) /\ cap[1] > TotalItems(src)
    /\ NumPages(src) = 3
    /\ Len(result[1]) = 2 * PageSize + 40
    /\ Len(CommentRequests) = 3


\* the request for the page the source fails on
FailingRequest == Request("commentThreads", IF src.failAt = 1 THEN NoToken ELSE src.failAt)

\* the source has answered a commentThreads request by its failure
FailedPageRequested ==
    src.failAt >= 1 /\ \E i \in 1..Len(reqs) : reqs[i] = FailingRequest

\* the failure is a response with a non-success HTTP status
HttpFailure(resp) == resp.kind = "http" /\ resp.status_code # 200

\* the reason code the server supplies in a body: errors[0].reason of its error
\* object, "" when the body has none
ServerReason(body) ==
    IF body.json /\ body.error # None /\ body.error[1].errors # None
       /\ body.error[1].errors[1] # <<>> /\ body.error[1].errors[1][1] # None
    THEN body.error[1].errors[1][1][1]
    ELSE ""

\* C3: once a commentThreads response had a non-success status, the script has
\* stopped: that request was the last of the run and was issued once, the fetch
\* ended by an exception and handed no list to the page, and the page shows one
\* error message and no table, chart, image or download.
C3_FailedPageAborts ==
    (FailedPageRequested /\ HttpFailure(src.errResp))
    => /\ pc = "idle"
       /\ raised # None
       /\ result = None
       /\ reqs[Len(reqs)] = FailingRequest
       /\ Cardinality({i \in 1..Len(reqs) : reqs[i] = FailingRequest}) = 1
       /\ Len(CommentRequests) = src.failAt
       /\ out.shown = {}
       /\ Len(out.notices) = 1
       /\ out.notices[1].level = "error"

C3_Witness ==
    /\ FailedPageRequested /\ HttpFailure(src.errResp)
    /\ src.failAt = 2
    /\ Len(items) = PageSize
    /\ result = None
    /\ out.shown = {}

\* the message the claim names for a reason
ClaimedMessage(reason) ==
    IF reason = "commentsDisabled" THEN "comments_disabled"
    ELSE IF reason = "quotaExceeded" THEN "quota"
    ELSE "generic"

\* C4 as stated: the message is the comments-disabled one for reason
\* commentsDisabled, the quota one for reason quotaExceeded, and the generic one
\* for every other status and reason.
C4_Original ==
    (FailedPageRequested /\ HttpFailure(src.errResp))
    => out.notices = <<Notice("error", ClaimedMessage(ServerReason(src.errResp.body)))>>

\* the message for a failure, by the texts its message "code:reason" contains
AmendedMessage(exc) ==
    IF exc.type # "RuntimeError" THEN "generic"
    ELSE IF Contains(exc.msg, "commentsDisabled")
            \/ (Contains(exc.msg, "403") /\ Contains(exc.msg, "forbidden"))
    THEN "comments_disabled"
    ELSE IF Contains(exc.msg, "quotaExceeded") \/ Contains(exc.msg, "429")
    THEN "quota"
    ELSE "generic"

\* C4, amended: when a commentThreads request fails, the page shows exactly one
\* message, chosen from the failure's message "code:reason": the comments-disabled
\* one when it contains commentsDisabled, or both 403 and forbidden; else the quota
\* one when it contains quotaExceeded or 429; else the generic one, which a failure
\* that is no API error response gets too.
C4_MessageByCodeAndReason ==
    FailedPageRequested
    => /\ raised # None
       /\ out.notices = <<Notice("error", AmendedMessage(raised[1]))>>

C4_Witness ==
    /\ FailedPageRequested
    /\ raised = RuntimeError("403:forbidden")
    /\ out.notices = <<Notice("error", "comments_disabled")>>

\* C5 as stated: the message carries the HTTP status code of the response and the
\* reason the server supplied.
C5_Original ==
    (FailedPageRequested /\ HttpFailure(src.errResp))
    => raised = RuntimeError(ErrorMessage(src.errResp.status_code, ServerReason(src.errResp.body)))

\* the body is a JSON object whose error has a code, and whose errors list is
\* absent or has an entry
BodyCodeReadable(body) ==
    /\ body.json /\ body.error # None /\ body.error[1].code # None
    /\ (body.error[1].errors = None \/ body.error[1].errors[1] # <<>>)

\* C5, amended: for every non-success response raise_api_error raises (it never
\* returns) a RuntimeError "code:reason" with the reason the server supplied ("" when
\* none) and, in app.py, the HTTP status code; in pages 01, 03 and 04 the code of the
\* body's error object when the body is a JSON object that has one and an errors list
\* that is absent or not empty, and the HTTP status code otherwise.
C5_CodeAndReason ==
    (FailedPageRequested /\ HttpFailure(src.errResp))
    => /\ result = None
       /\ raised = RuntimeError(ErrorMessage(
              IF page # "app" /\ BodyCodeReadable(src.errResp.body)
              THEN src.errResp.body.error[1].code[1]
              ELSE src.errResp.status_code,
              ServerReason(src.errResp.body)))

C5_Witness ==
    /\ FailedPageRequested
    /\ page = "p01"
    /\ src.errResp.status_code = 400
    /\ raised = RuntimeError("403:quotaExceeded")

\* C6: a run in which the trigger was pressed with a URL that yields no identifier
\* shows the invalid-address message and nothing else, and has stopped without an
\* HTTP request; a run in which the trigger was not pressed issues no HTTP request.
C6_NoRequestWithoutValidUrl ==
    /\ (page # "none" /\ fetch_btn /\ (video_id = None \/ video_id = Some("")))
       => /\ reqs = <<>>
          /\ pc = "idle"
          /\ out.notices = <<Notice("error", "invalid_url")>>
          /\ out.shown = {}
    /\ (page # "none" /\ ~fetch_btn) => (reqs = <<>> /\ pc = "idle")

C6_Witness ==
    /\ fetch_btn
    /\ url_input = "https://example.com/watch"
    /\ video_id = None
    /\ out.notices = <<Notice("error", "invalid_url")>>
    /\ reqs = <<>>

\* C7: with no API credential, or an empty one, the page has rendered its inputs
\* and the missing-key error notice, its trigger is disabled and was never pressed,
\* and no fetch and no HTTP request was started.
C7_NoKeyNoFetch ==
    (page # "none" /\ ("youtube_api_key" \notin DOMAIN secrets \/ secrets["youtube_api_key"] = ""))
    => /\ out.inputs
       /\ out.disabled
       /\ out.notices = <<Notice("error", "no_api_key")>>
       /\ ~fetch_btn
       /\ pc = "idle"
       /\ fn = "none"
       /\ reqs = <<>>

C7_Witness ==
    /\ "youtube_api_key" \notin DOMAIN secrets
    /\ url_input = "https://example.com/watch"
    /\ out.inputs /\ out.disabled
    /\ out.notices = <<Notice("error", "no_api_key")>>

\* C8: for every accepted URL shape (watch?v=ID, /embed/ID, /shorts/ID, /live/ID and
\* ?vi=ID on a YouTube host, youtu.be/ID), with or without a scheme, and every
\* identifier of 11 or more characters of [A-Za-z0-9_-], extract_video_id returns
\* exactly that identifier.
C8_AcceptedShapes ==
    pc = "url_done"
    => /\ \A sch \in Schemes, h \in YoutubeHosts, k \in YoutubeShapes, id \in ValidIds :
            url_input = AcceptedUrl(sch, h, k, id) => video_id = Some(id)
       /\ \A sch \in Schemes, h \in ShortHosts, k \in ShortShapes, id \in ValidIds :
            url_input = AcceptedUrl(sch, h, k, id) => video_id = Some(id)

C8_Witness ==
    /\ pc = "url_done"
    /\ url_input = AcceptedUrl("", "youtu.be", "short2", "dQw4w9WgXcQ0")
    /\ video_id = Some("dQw4w9WgXcQ0")

\* C9: for every malformed or unsupported input (empty, a host that is not YouTube,
\* a YouTube URL whose identifier is missing, too short or has other characters)
\* extract_video_id returns None.
C9_MalformedRejected ==
    (pc = "url_done" /\ url_input \in MalformedUrls) => video_id = None

\* the parts of an input that extract_video_id reads
PartsOf(url0) ==
    LET url1 == Strip(url0)
        parsed == UrlParse(IF HasScheme(url1) THEN url1 ELSE "https://" \o url1)
    IN  [raises |-> parsed.raises, host |-> Lower(parsed.netloc), path |-> parsed.path,
         v |-> ParseQs(parsed.query, "v"), vi |-> ParseQs(parsed.query, "vi")]

\* the identifier after /embed/, /shorts/ or /live/ in a path, in that order
PathId(path) ==
    IF SearchId("/embed/", path) # None THEN SearchId("/embed/", path)
    ELSE IF SearchId("/shorts/", path) # None THEN SearchId("/shorts/", path)
    ELSE SearchId("/live/", path)

\* the order the claim states: v, the path forms, the short link, vi
ClaimedOrder(p) ==
    IF p.v # <<>> THEN Some(p.v[1])
    ELSE IF PathId(p.path) # None THEN PathId(p.path)
    ELSE IF Contains(p.host, "youtu.be") /\ MatchLeadingId(p.path) # None THEN MatchLeadingId(p.path)
    ELSE IF p.vi # <<>> THEN Some(p.vi[1])
    ELSE None

\* C10 as stated, for the URLs of a YouTube or short-link host: the result is the
\* first match in the order v, then /embed/, /shorts/ or /live/, then the first path
\* segment of a short link, then vi.
C10_Original ==
    (/\ pc = "url_done" /\ url_input # ""
     /\ ~PartsOf(url_input).raises
     /\ (Contains(PartsOf(url_input).host, "youtube.com") \/ Contains(PartsOf(url_input).host, "youtu.be")))
    => video_id = ClaimedOrder(PartsOf(url_input))

\* the order with each source tried only for its host
HostGatedOrder(p) ==
    IF Contains(p.host, "youtube.com") /\ p.v # <<>> THEN Some(p.v[1])
    ELSE IF Contains(p.host, "youtube.com") /\ PathId(p.path) # None THEN PathId(p.path)
    ELSE IF Contains(p.host, "youtu.be") /\ MatchLeadingId(p.path) # None THEN MatchLeadingId(p.path)
    ELSE IF p.vi # <<>> THEN Some(p.vi[1])
    ELSE None

\* C10, amended: the result is the first match in this order: for a host that
\* contains youtube.com, query parameter v, then the run of 6 or more identifier
\* characters after /embed/, then after /shorts/, then after /live/ in the path; for
\* a host that contains youtu.be, such a run at the start of the path; and only when
\* none of those matched, for any host, query parameter vi. An empty input, and one
\* the URL parser rejects, gives None.
C10_HostGatedOrder ==
    pc = "url_done"
    => video_id = IF url_input = "" \/ PartsOf(url_input).raises THEN None
                  ELSE HostGatedOrder(PartsOf(url_input))

C10_Witness ==
    /\ pc = "url_done"
    /\ url_input = "youtu.be/WXuK6gekU1Y?v=a_B-9zZ0xYq"
    /\ video_id = Some("WXuK6gekU1Y")

\* the run's fetch was given no maximum count: app.py calls fetch_all_comments
\* without max_total, pages 01 and 03 pass limit None for the "all" option
NoMaximumGiven ==
    \/ page = "app"
    \/ page \in {"p01", "p03"} /\ widgets.quick = "all"

\* C11 as stated: with no maximum count supplied the fetch returns every item the
\* source holds, however many there are.
C11_Original ==
    (page # "none" /\ fetch_btn /\ NoMaximumGiven /\ Healthy(src) /\ result # None)
    => /\ result = Some(AcceptedBy(fn, AllItems(src)))
       /\ Len(CommentRequests) = NumPages(src)

\* C11, amended: on pages 01 and 03 a fetch given no maximum count (limit None) asks
\* for pages until the cursor is exhausted and returns every item the source holds;
\* in app.py fetch_all_comments called without max_total has the maximum 1000: it
\* returns the first 1000 items of a source that holds more, after 10 requests, and
\* every item of a source that holds fewer.
C11_UnboundedOnlyWithNone ==
    (page # "none" /\ fetch_btn /\ NoMaximumGiven /\ Healthy(src) /\ result # None)
    => IF page = "app" /\ TotalItems(src) >= DefaultMaxTotal
       THEN /\ cap = Some(DefaultMaxTotal)
            /\ result = Some(SubSeq(AllItems(src), 1, DefaultMaxTotal))
            /\ Len(CommentRequests) = CeilDiv(DefaultMaxTotal, PageSize)
       ELSE /\ page # "app" => cap = None
            /\ result = Some(AcceptedBy(fn, AllItems(src)))
            /\ Len(CommentRequests) = NumPages(src)

C11_Witness ==
    /\ page = "p01" /\ widgets.quick = "all" /\ cap = None
    /\ NumPages(src) = ManyPages
    /\ result # None /\ Len(result[1]) = ManyPages * PageSize
    /\ Len(CommentRequests) = ManyPages

(***************************************************************************)
(* Stopwords and tokens                                                    *)
(***************************************************************************)
\* the entries of a comma-separated text area as they were typed: the pieces between
\* two commas (or an end of the text), without the blanks around them
TypedEntries(s) ==
    {PyStrip([k \in 1..(j - i + 1) |-> s[i + k - 1]]) :
        <<i, j>> \in {<<a, b>> \in (1..Len(s)) \X (1..Len(s)) :
                        /\ a <= b
                        /\ \A k \in a..b : s[k] # 44
                        /\ a = 1 \/ s[a - 1] = 44
                        /\ b = Len(s) \/ s[b + 1] = 44}} \ {<<>>}

\* the stopwords page 04 is configured with: those of wordcloud, the Korean ones of
\* the page, and what the user typed into the two text areas
ConfiguredStopwords ==
    WC_STOPWORDS \cup STOP_KO_BASE \cup TypedEntries(user_en_stop) \cup TypedEntries(user_ko_stop)

\* C12: no token of the output of tokens_from_texts is a configured stopword (of
\* wordcloud, of the page, or typed by the user), in whatever casing the word occurs
\* in the comments and in whatever casing the user typed it.
C12_StopwordsCountZero ==
    (pc = "tok_done" /\ fn = "tokens_from_texts")
    => \A s \in ConfiguredStopwords :
          /\ CountIn(result[1], s) = 0
          /\ CountIn(result[1], PyLower(s)) = 0
          /\ \A i \in 1..Len(result[1]) : PyLower(result[1][i]) # PyLower(s)

\* the user typed GREAT, the comment holds great and Great, and a built-in stopword
\* occurs in it in three casings as well
C12_Witness ==
    /\ pc = "tok_done" /\ fn = "tokens_from_texts"
    /\ user_en_stop = Str("GREAT,,  ")
    /\ texts = <<Str("Video video VIDEO great Great"), Str("THE the The video")>>
    /\ result = Some(<<Str("video"), Str("video"), Str("video"), Str("video")>>)

(***************************************************************************)
(* The comment "Great video!! <choegoyeyo> <kk>"                           *)
(***************************************************************************)
\* the words of the scenario: choe-go-ye-yo in Hangul syllables, and the comment, which
\* ends in two Hangul consonants (U+314B twice)
Choegoyeyo == <<52572, 44256, 50696, 50836>>
ScenarioComment == Str("Great video!! ") \o Choegoyeyo \o Str(" ") \o <<12619, 12619>>

\* the user added no stopword of their own
NoUserStopwords == user_en_stop = <<>> /\ user_ko_stop \in {<<>>, Str(" , ")}

\* C13 as stated: with the English and Korean stopword sets active, the comment
\* yields exactly the tokens great and choegoyeyo.
C13_Original ==
    (pc = "tok_done" /\ fn = "tokens_from_texts" /\ texts = <<ScenarioComment>> /\ NoUserStopwords)
    => {result[1][i] : i \in 1..Len(result[1])} = {Str("great"), Choegoyeyo}

\* C13, amended: with page 04's stopword sets (wordcloud STOPWORDS and STOP_KO_BASE)
\* the comment yields exactly great, video and choegoyeyo, once each and in this
\* order; it yields exactly great and choegoyeyo once the user has added video to the
\* English stopwords.
C13_ScenarioTokens ==
    (pc = "tok_done" /\ fn = "tokens_from_texts" /\ texts = <<ScenarioComment>>
        /\ user_ko_stop \in {<<>>, Str(" , ")})
    => /\ user_en_stop = <<>> => result = Some(<<Str("great"), Str("video"), Choegoyeyo>>)
       /\ user_en_stop = Str("video, Comment ,LIKE") => result = Some(<<Str("great"), Choegoyeyo>>)

C13_Witness ==
    /\ pc = "tok_done" /\ fn = "tokens_from_texts" /\ texts = <<ScenarioComment>>
    /\ user_en_stop = <<>> /\ user_ko_stop = <<>>
    /\ Len(result[1]) = 3 /\ result[1][2] = Str("video")

(***************************************************************************)
(* Tokens as runs of word characters                                       *)
(***************************************************************************)
\* a character of a word: a Hangul syllable, a Latin letter and, where the tokenizer
\* takes them, a digit
WordChar(c, digits) == IsHangul(c) \/ IsLatin(c) \/ (digits /\ IsDigit(c))

\* where the maximal runs of word characters of at least two characters start in t
\* whose lowercased text is not in stop, and where the run that starts at i ends
LongRunEnd(t, digits, i) ==
    CHOOSE j \in i..Len(t) : /\ \A k \in i..j : WordChar(t[k], digits)
                             /\ j = Len(t) \/ ~WordChar(t[j + 1], digits)
LoweredRun(t, digits, i) == PyLower([k \in 1..(LongRunEnd(t, digits, i) - i + 1) |-> t[i + k - 1]])
LongRunStarts(t, digits, stop) ==
    {i \in 1..Len(t) : /\ WordChar(t[i], digits)
                       /\ i = 1 \/ ~WordChar(t[i - 1], digits)
                       /\ LongRunEnd(t, digits, i) > i
                       /\ LoweredRun(t, digits, i) \notin stop}

\* ws is, in order, the lowercased runs of t that start at LongRunStarts
IsTheRunsOf(ws, t, digits, stop) ==
    LET st == LongRunStarts(t, digits, stop)
    IN  /\ Len(ws) = Cardinality(st)
        /\ \A i \in st : ws[Cardinality({h \in st : h <= i})] = LoweredRun(t, digits, i)

\* ws is the runs of the texts, one text after the other
IsTheRunsOfAll(ws, ts, digits, stop) ==
    \E cut \in 0..Len(ws) :
        /\ IsTheRunsOf(SubSeq(ws, 1, cut), ts[1], digits, stop)
        /\ IF Len(ts) = 1 THEN cut = Len(ws)
           ELSE IsTheRunsOf(SubSeq(ws, cut + 1, Len(ws)), ts[2], digits, stop)

LoweredStopwords == {PyLower(s) : s \in ConfiguredStopwords}

\* the word occurs in one of the texts, in some casing
OccursIn(w, ts) ==
    \E n \in 1..Len(ts) : \E i \in 1..(Len(ts[n]) - Len(w) + 1) :
        \A k \in 1..Len(w) : PyLower(<<ts[n][i + k - 1]>>) = <<w[k]>>

\* C14 as stated: the tokens of every tokenizer are the lowercased maximal runs of
\* Hangul syllables, Latin letters or digits of at least two characters that are not
\* stopwords, so that the tokenizers agree on an input.
C14_Original ==
    (pc = "tok_done" /\ fn \in {"tokens_from_texts", "simple_tokenize_korean_english"})
    => IsTheRunsOfAll(result[1], texts, TRUE,
                      IF fn = "tokens_from_texts" THEN LoweredStopwords ELSE {})

\* C14, amended: the tokens of tokens_from_texts (page 04) are the lowercased maximal
\* runs of Hangul syllables or Latin letters, digits not among them, of at least two
\* characters that are not stopwords, all of them and in order; those of
\* simple_tokenize_korean_english (page 01) are the lowercased maximal runs of Hangul
\* syllables, Latin letters or digits of at least two characters; every word
\* count_top_words counts has at least two characters, all of them Hangul syllables,
\* lowercase Latin letters or digits, and occurs in a text.
C14_TokensAreRuns ==
    pc = "tok_done"
    => CASE fn = "tokens_from_texts" ->
              IsTheRunsOfAll(result[1], texts, FALSE, LoweredStopwords)
         [] fn = "simple_tokenize_korean_english" ->
              IsTheRunsOfAll(result[1], texts, TRUE, {})
         [] fn = "count_top_words" ->
              \A n \in 1..Len(result[1]) :
                  LET w == result[1][n].word
                  IN  /\ Len(w) >= 2
                      /\ \A k \in 1..Len(w) : WordChar(w[k], TRUE) /\ PyLower(w) = w
                      /\ OccursIn(w, texts)

\* a text with digits: page 04 takes abc out of abc123 and nothing out of 2024 and a1
C14_Witness ==
    /\ pc = "tok_done" /\ fn = "tokens_from_texts"
    /\ texts = <<Str("abc123 2024 a1")>>
    /\ user_en_stop = <<>> /\ user_ko_stop = <<>>
    /\ result = Some(<<Str("abc")>>)
    /\ simple_tokenize_korean_english(texts[1]) = <<Str("abc123"), Str("2024"), Str("a1")>>

(***************************************************************************)
(* The rows of count_top_words                                             *)
(***************************************************************************)
\* where w first occurs in ws
FirstOccurrence(ws, w) == CHOOSE i \in 1..Len(ws) : ws[i] = w /\ \A j \in 1..(i - 1) : ws[j] # w

\* C15: count_top_words returns at most topk rows, no word twice; the count of a row
\* is the number of times its word occurs among the tokens of all the texts; a row
\* comes before every row of a smaller count and before the rows of the same count
\* whose word occurs first later; and a word is left out only when topk rows are
\* returned, each of them of a higher count or of the same count and earlier in the
\* input.
C15_TopRows ==
    (pc = "tok_done" /\ fn = "count_top_words")
    => LET rows == result[1]
           all  == AllTokens(texts)
           kept == {rows[n].word : n \in 1..Len(rows)}
       IN  /\ Len(rows) <= topk
           /\ \A n \in 1..Len(rows) :
                 /\ rows[n].count = CountIn(all, rows[n].word)
                 /\ rows[n].count >= 1
           /\ \A n, m \in 1..Len(rows) : n < m =>
                 \/ rows[n].count > rows[m].count
                 \/ /\ rows[n].count = rows[m].count
                    /\ FirstOccurrence(all, rows[n].word) < FirstOccurrence(all, rows[m].word)
           /\ \A i \in 1..Len(all) : all[i] \notin kept =>
                 /\ Len(rows) = topk
                 /\ \A n \in 1..Len(rows) :
                       \/ rows[n].count > CountIn(all, all[i])
                       \/ /\ rows[n].count = CountIn(all, all[i])
                          /\ FirstOccurrence(all, rows[n].word) < i

\* two texts with zz and yy twice each and xx once, topk 2: zz and yy with 4, zz
\* first, and xx left out
C15_Witness ==
    /\ pc = "tok_done" /\ fn = "count_top_words" /\ topk = 2
    /\ texts = <<Str("zz yy zz yy xx"), Str("zz yy zz yy xx")>>
    /\ result = Some(<<[word |-> Str("zz"), count |-> 4], [word |-> Str("yy"), count |-> 4]>>)

(***************************************************************************)
(* Tokenizing tokens                                                       *)
(***************************************************************************)
\* the same words, each the same number of times
SameMultiset(a, b) ==
    \A w \in {a[i] : i \in 1..Len(a)} \cup {b[i] : i \in 1..Len(b)} : CountIn(a, w) = CountIn(b, w)

\* the tokenizer of the call, given the tokens ws as its input strings under the same
\* stopwords
Retokenized(ws) ==
    IF fn = "tokens_from_texts"
    THEN tokens_from_texts(ws, EnStop(user_en_stop), KoStop(user_ko_stop))
    ELSE Flatten([k \in 1..Len(ws) |-> simple_tokenize_korean_english(ws[k])])

\* C16: the tokens that tokens_from_texts or simple_tokenize_korean_english returned,
\* given back to it as input strings with the same stopword sets, come out again as
\* the same multiset of tokens.
C16_Idempotent ==
    (pc = "tok_done" /\ fn \in {"tokens_from_texts", "simple_tokenize_korean_english"})
    => SameMultiset(Retokenized(result[1]), result[1])

\* two comments with a stopword in three casings and a word the user typed in
\* capitals: their tokens, tokenized again, are the same two
C16_Witness ==
    /\ pc = "tok_done" /\ fn = "tokens_from_texts"
    /\ texts = <<Str("THE the The video"), Str("line") \o <<10>> \o Str("Great LIKE")>>
    /\ user_en_stop = Str("GREAT,,  ")
    /\ Len(result[1]) = 2
    /\ Retokenized(result[1]) = <<Str("video"), Str("line")>>

(***************************************************************************)
(* Empty results                                                           *)
(***************************************************************************)
\* the texts of the comments the fetch returned
ReturnedTexts == {ItemText(result[1][i]) : i \in 1..Len(result[1])} \ {<<>>}

\* the frequency table of the page is empty: count_top_words returns no row on
\* page 01, tokens_from_texts no token on page 04
FrequencyTableEmpty ==
    \A t \in ReturnedTexts :
        IF page = "p04"
        THEN tokens_from_texts(<<t>>, EnStop(user_en_stop), KoStop(user_ko_stop)) = <<>>
        ELSE count_top_words(<<t>>, topk) = <<>>

EmptyResult ==
    /\ page # "none" /\ fetch_btn /\ result # None
    /\ \/ result[1] = <<>>
       \/ page \in {"p01", "p04"} /\ FrequencyTableEmpty

\* C17: when the fetch returned no comment, or the comments hold no token that
\* survives filtering, the script has ended with one notice, which is not an error
\* (st.info; st.warning on page 04), has rendered no table, chart, image or download,
\* and nothing was raised.
C17_EmptyIsInformational ==
    EmptyResult
    => /\ pc = "idle"
       /\ raised = None
       /\ out.shown = {}
       /\ Len(out.notices) = 1
       /\ out.notices[1].level \in {"info", "warning"}
       /\ out.notices[1].text \in {"no_comments", "no_words"}
       /\ out.notices[1].text = "no_words" <=> result[1] # <<>>

\* page 04, forty comments of English stopwords only: no token survives
C17_Witness ==
    /\ page = "p04" /\ fetch_btn /\ result # None
    /\ Len(result[1]) = 40
    /\ \A i \in 1..Len(result[1]) : ItemText(result[1][i]) = Str("The and")
    /\ FrequencyTableEmpty
    /\ out.notices = <<Notice("warning", "no_words")>>
    /\ out.shown = {}

(***************************************************************************)
(* The cursor of the page requests                                         *)
(***************************************************************************)
\* the response to the n-th commentThreads request
ResponseTo(n) == CommentPage(src, CommentRequests[n].pageToken)

\* C18: the commentThreads requests of one fetch follow one another, each answered
\* before the next is sent: the first carries no pageToken, every later one the
\* nextPageToken of the response to the request just before it, which was a 200
\* response with a cursor, and no cursor is sent twice; between two passes of the
\* loop the function holds the cursor of the last response and no request is open.
C18_CursorThreaded ==
    (page = "none" /\ fn \in FetchFns /\ CommentRequests # <<>>)
    => /\ CommentRequests[1].pageToken = NoToken
       /\ \A n \in 2..Len(CommentRequests) :
             /\ ResponseTo(n - 1).kind = "http" /\ ResponseTo(n - 1).status_code = 200
             /\ ResponseTo(n - 1).body.nextPageToken # NoToken
             /\ CommentRequests[n].pageToken = ResponseTo(n - 1).body.nextPageToken
             /\ \A m \in 1..(n - 1) : CommentRequests[m].pageToken # CommentRequests[n].pageToken
       /\ pc = "loop" => page_token = ResponseTo(Len(CommentRequests)).body.nextPageToken
       /\ pc # "loop" => (result # None \/ raised # None)

\* a fetch of three pages: the second request carries the cursor of the first
\* response and the third that of the second
C18_Witness ==
    /\ page = "none" /\ fn = "fetch_all_comments" /\ result # None
    /\ Len(CommentRequests) = MaxPages
    /\ CommentRequests[2].pageToken = ResponseTo(1).body.nextPageToken
    /\ CommentRequests[MaxPages].pageToken = ResponseTo(MaxPages - 1).body.nextPageToken
    /\ CommentRequests[MaxPages].pageToken # CommentRequests[2].pageToken

(***************************************************************************)
(* The two sources of the font                                             *)
(***************************************************************************)
\* C19: when no font file is there and the download from the first URL fails, the
\* second URL is asked and a good download from it gives the path of the font;
\* None is returned only when both downloads fail.
C19_FallsBackToSecond ==
    (fn = "get_korean_font_path" /\ pc = "font_done" /\ ~font_env.cached)
    => /\ (font_env.downloads[1] # "ok" /\ font_env.downloads[2] = "ok")
            => /\ Len(reqs) = Len(FontUrls)
               /\ result = Some(Some(FontFile))
       /\ result = Some(None)
            => \A n \in 1..Len(FontUrls) : font_env.downloads[n] # "ok"

(***************************************************************************)
(* Failures of the videos request                                          *)
(***************************************************************************)
\* the videos request of page 03 or 04 was answered with a non-success status
MetadataFailed ==
    /\ page \in {"p03", "p04"} /\ fetch_btn
    /\ src.meta = "error" /\ HttpFailure(src.errResp)
    /\ reqs # <<>> /\ reqs[1] = Request("videos", NoToken)

\* C20: on pages 03 and 04 a failed videos request shows the message a failed
\* comment page would: the quota one for reason quotaExceeded, the
\* comments-disabled one for reason commentsDisabled, the generic one otherwise;
\* and no commentThreads request follows.
C20_MetadataFailureClassified ==
    MetadataFailed
    => /\ out.notices = <<Notice("error", ClaimedMessage(ServerReason(src.errResp.body)))>>
       /\ CommentRequests = <<>>

(***************************************************************************)
(* The accumulated list                                                    *)
(***************************************************************************)
\* the n-th commentThreads request was answered by a page of items
PageReceived(n) ==
    /\ ResponseTo(n).kind = "http" /\ ResponseTo(n).status_code = 200
    /\ ResponseTo(n).body.json

\* the items of the pages received so far that the function accepts, page after page
ReceivedItems ==
    Flatten([n \in 1..Len(CommentRequests) |->
                IF PageReceived(n) THEN AcceptedBy(fn, ResponseTo(n).body.items) ELSE <<>>])

\* a is the first Len(a) items of b, in their order
IsPrefix(a, b) == Len(a) <= Len(b) /\ \A i \in 1..Len(a) : a[i] = b[i]

\* C21: for a cap of at least 1, whatever pages and failures the source answers with,
\* the list a fetch function has accumulated is, between two passes of its loop, after
\* a failure and on return, the first items, in order, of the accepted items of the
\* pages received so far; it is all of them as long as the loop goes on, which it
\* does only below the cap; and the returned list is that list, of no more items
\* than the cap.
C21_PrefixUnderCap ==
    (page = "none" /\ fn \in FetchFns /\ cap # None /\ cap[1] >= 1)
    => /\ IsPrefix(items, ReceivedItems)
       /\ (pc = "loop" /\ CommentRequests # <<>>)
             => items = ReceivedItems /\ Len(items) < cap[1]
       /\ result # None
             => /\ result[1] = items
                /\ Len(result[1]) <= cap[1]
                /\ Len(result[1]) < cap[1] => result[1] = ReceivedItems

\* a fetch over several pages, some of whose items are not accepted, that returns at
\* its cap with accepted items of the last page left over
C21_Witness ==
    /\ page = "none" /\ fn = "fetch_comment_texts" /\ cap # None
    /\ src.kinds = "mixed"
    /\ Len(CommentRequests) >= 2
    /\ result # None /\ Len(result[1]) = cap[1]
    /\ Len(ReceivedItems) > cap[1]
    /\ IsPrefix(result[1], ReceivedItems)

====
